---- MODULE Spec2Model ----
(***************************************************************************)
(* A model of the vmad3 tape-based automatic-differentiation engine of     *)
(* abopt: graph construction (Primitive.__init__, Model), execution        *)
(* (Context.compute) and the differentiation transforms (vjp, jvp); and of *)
(* the optimizers of abopt.py (GradientDescent, LBFGS).                    *)
(*                                                                         *)
(* Values are integers, and in the scalar test of the library ndarrays.    *)
(* A Symbol is an entry of a model's `syms` sequence                       *)
(* and is identified by its index: two Symbols may carry the same name,    *)
(* exactly as two Symbol objects of the source may.                        *)
(***************************************************************************)
EXTENDS Integers, Sequences, FiniteSets, TLC

(***************************************************************************)
(* Bounds of the exploration.                                              *)
(***************************************************************************)
MaxInputs == 2       \* declared inputs of the original graph
MaxNodes  == 3       \* nodes of the original graph, terminal nodes included
MaxFailed == 1       \* builder calls that raised, per graph
MaxWide   == 2       \* nodes of a graph built with every kind of call
MaxPos    == 2       \* positional arguments of a node call
MaxLen    == 10      \* elements of x in the scalar test
MaxList   == 3       \* Symbols in a list handed to a node call
MaxStart  == 5       \* the starting point x0 of minimize
MaxSteps  == 3       \* maxsteps of GradientDescent
MaxIterations == 12  \* iterations of LBFGS.minimize

VARIABLES
    model,      \* the graph under construction (a Model)
    last,       \* the most recent builder call and the error it raised
    failed,     \* number of builder calls that raised
    target,     \* the graph compute runs on: "none", "opr", "vjp" or "jvp"
    pc,         \* position of the driver / of Context.compute
    i,          \* index of the node compute is at (enumerate(model))
    ctx,        \* the Context: symbol name -> value
    ctx0,       \* the Context as handed to compute (history)
    tape,       \* the Tape of the running compute
    r,          \* compute's table of collected outputs
    vout,       \* the requested output names
    single_return, \* the request was one name given as a str
    cerr,       \* the error compute raised, "none" if none
    result,     \* the values compute returned
    calls,      \* history: the node procedures invoked, with their outputs
    stored,     \* history: name -> the value last stored under it
    otape,      \* the tape of the finished compute of the original graph
    dmodel,     \* the graph derived by vjp or jvp
    derr,       \* the error the transform raised, "none" if none
    opdecl,     \* the class handed to the operator decorator
    declared,   \* what the decorator did with it
    first,      \* history: the result and tape of the first of two computes
    dprev,      \* history: the outcome of the first of two transforms
    opt,        \* the optimizer: the running minimize and its State
    seg         \* the code segment of vmad2 and its running compute

vars == <<model, last, failed, target, pc, i, ctx, ctx0, tape, r, vout, single_return, cerr,
          result, calls, stored, otape, dmodel, derr, opdecl, declared,
          first, dprev, opt, seg>>

(***************************************************************************)
(* Finite maps with string keys.                                           *)
(***************************************************************************)
EmptyMap == [k \in {} |-> 0]

Put(f, k, v) == [x \in (DOMAIN f) \cup {k} |-> IF x = k THEN v ELSE f[x]]

Restrict(f, S) == [x \in (DOMAIN f) \cap S |-> f[x]]

Range(s) == {s[k] : k \in DOMAIN s}

(***************************************************************************)
(* Operators (operator.py, lib/linalg.py).  An operator declares ain, aout *)
(* and the three procedures opr, vjp, jvp; Argnames are the formal         *)
(* parameters of each procedure (impl.__code__.co_varnames).               *)
(***************************************************************************)
Ain(op) ==
    IF op \in {"terminal", "to_scalar", "copy", "pow", "stack"} THEN <<"x">>
    ELSE <<"x1", "x2">>

Aout(op) == <<"y">>

Argnames(op, func) ==
    CASE op = "add" /\ func = "opr" -> <<"x1", "x2">>
      [] op = "add" /\ func = "vjp" -> <<"_y">>
      [] op = "add" /\ func = "jvp" -> <<"x1_", "x2_">>
      [] op = "mul" /\ func = "opr" -> <<"x1", "x2">>
      [] op = "mul" /\ func = "vjp" -> <<"_y", "x1", "x2">>
      [] op = "mul" /\ func = "jvp" -> <<"x1_", "x2_", "x1", "x2">>
      [] op = "to_scalar" /\ func = "opr" -> <<"x">>
      [] op = "to_scalar" /\ func = "vjp" -> <<"_y", "x">>
      [] op = "to_scalar" /\ func = "jvp" -> <<"x_", "x">>
      [] op = "pow" /\ func = "opr" -> <<"x", "n">>
      [] op = "pow" /\ func = "vjp" -> <<"_y", "x">>
      [] op = "pow" /\ func = "jvp" -> <<"x_", "x">>
      [] op = "copy" /\ func = "opr" -> <<"x">>
      [] op = "copy" /\ func = "vjp" -> <<"_y">>
      [] op = "copy" /\ func = "jvp" -> <<"x_">>
      [] op = "stack" /\ func = "opr" -> <<"x", "axis">>
      [] op = "stack" /\ func = "vjp" -> <<"_y", "axis">>
      [] op = "stack" /\ func = "jvp" -> <<"x_", "axis">>
      [] op = "terminal" /\ func = "opr" -> <<"x">>
      [] op = "terminal" /\ func = "vjp" -> <<"_y">>
      [] op = "terminal" /\ func = "jvp" -> <<"x_">>

IsIn(x, s) == \E k \in DOMAIN s : s[k] = x

Useful(op, func) == SelectSeq(Argnames(op, func), LAMBDA a : IsIn(a, Ain(op)))

Prefixed(s) == [k \in DOMAIN s |-> "_" \o s[k]]

Suffixed(s) == [k \in DOMAIN s |-> s[k] \o "_"]

\* _make_primitive: the input and output argument lists of a node kind
PrimAin(op, func) ==
    CASE func = "opr" -> Ain(op)
      [] func = "vjp" -> Useful(op, func) \o Prefixed(Aout(op))
      [] func = "jvp" -> Useful(op, func) \o Suffixed(Ain(op))

PrimAout(op, func) ==
    CASE func = "opr" -> Aout(op)
      [] func = "vjp" -> Prefixed(Ain(op))
      [] func = "jvp" -> Suffixed(Aout(op))

\* the procedure bodies: kw maps parameter names to values
Impl(op, func, kw) ==
    CASE op = "add" /\ func = "opr" -> ("y" :> kw["x1"] + kw["x2"])
      [] op = "add" /\ func = "vjp" -> ("_x1" :> kw["_y"]) @@ ("_x2" :> kw["_y"])
      [] op = "add" /\ func = "jvp" -> ("y_" :> kw["x1_"] + kw["x2_"])
      [] op = "mul" /\ func = "opr" -> ("y" :> kw["x1"] * kw["x2"])
      [] op = "mul" /\ func = "vjp" ->
            ("_x1" :> kw["_y"] * kw["x2"]) @@ ("_x2" :> kw["_y"] * kw["x1"])
      [] op = "mul" /\ func = "jvp" ->
            ("y_" :> kw["x1_"] * kw["x2"] + kw["x1"] * kw["x2_"])
      [] op = "pow" /\ func = "opr" -> ("y" :> kw["x"] ^ kw["n"])
      [] op = "terminal" /\ func = "opr" -> ("y" :> kw["x"])
      [] op = "terminal" /\ func = "vjp" -> ("_x" :> kw["_y"])
      [] op = "terminal" /\ func = "jvp" -> ("y_" :> kw["x_"])

\* the procedures that raise when called: pow.vjp and pow.jvp read the names
\* n and y_, which are neither parameters nor globals
Raises(op, func) == op = "pow" /\ func \in {"vjp", "jvp"}

ProcedureFailure == "NameError"

(***************************************************************************)
(* numpy values (lib/linalg.py on ndarrays).  An ndarray is the sequence   *)
(* of its elements; a Python or numpy scalar is a sequence of one element, *)
(* which numpy broadcasts against an array of any length.                  *)
(***************************************************************************)
\* element k of a broadcast to a longer shape
Item(a, k) == IF Len(a) = 1 THEN a[1] ELSE a[k]

Shape(a, b) == IF Len(a) >= Len(b) THEN Len(a) ELSE Len(b)

\* a * b
Times(a, b) == [k \in 1..Shape(a, b) |-> Item(a, k) * Item(b, k)]

\* a + b
Plus(a, b) == [k \in 1..Shape(a, b) |-> Item(a, k) + Item(b, k)]

\* abs(a)
Abs(a) == [k \in DOMAIN a |-> IF a[k] < 0 THEN -a[k] ELSE a[k]]

RECURSIVE Total(_)
Total(a) == IF a = <<>> THEN 0 ELSE a[1] + Total(Tail(a))

\* a.sum(), a scalar
Sum(a) == <<Total(a)>>

\* the procedure bodies on ndarrays
ImplArray(op, func, kw) ==
    CASE op = "mul" /\ func = "opr" -> ("y" :> Times(kw["x1"], kw["x2"]))
      [] op = "mul" /\ func = "vjp" ->
            ("_x1" :> Times(kw["_y"], kw["x2"])) @@ ("_x2" :> Times(kw["_y"], kw["x1"]))
      [] op = "mul" /\ func = "jvp" ->
            ("y_" :> Plus(Times(kw["x1_"], kw["x2"]), Times(kw["x1"], kw["x2_"])))
      [] op = "add" /\ func = "opr" -> ("y" :> Plus(kw["x1"], kw["x2"]))
      [] op = "add" /\ func = "vjp" -> ("_x1" :> kw["_y"]) @@ ("_x2" :> kw["_y"])
      [] op = "add" /\ func = "jvp" -> ("y_" :> Plus(kw["x1_"], kw["x2_"]))
      [] op = "copy" /\ func = "opr" -> ("y" :> kw["x"])
      [] op = "copy" /\ func = "vjp" -> ("_x" :> kw["_y"])
      [] op = "copy" /\ func = "jvp" -> ("y_" :> kw["x_"])
      [] op = "to_scalar" /\ func = "opr" -> ("y" :> Sum(Times(Abs(kw["x"]), Abs(kw["x"]))))
      [] op = "to_scalar" /\ func = "vjp" -> ("_x" :> Times(Times(<<2>>, kw["_y"]), kw["x"]))
      [] op = "to_scalar" /\ func = "jvp" -> ("y_" :> Times(Times(<<2>>, kw["x_"]), kw["x"]))
      [] op = "terminal" /\ func = "opr" -> ("y" :> kw["x"])
      [] op = "terminal" /\ func = "vjp" -> ("_x" :> kw["_y"])
      [] op = "terminal" /\ func = "jvp" -> ("y_" :> kw["x_"])

(***************************************************************************)
(* The operator decorator (operator.py).  A class handed to it is a record *)
(* [fields, ain, aout, params]: the attributes the class defines, its      *)
(* input and output names, and the formal parameters (self left out) of    *)
(* each procedure.                                                         *)
(***************************************************************************)
Procedures == <<"opr", "vjp", "jvp">>

AllFields == {"ain", "aout", "opr", "vjp", "jvp"}

NoDecl == [fields |-> {}, ain |-> <<>>, aout |-> <<>>,
           params |-> [f \in Range(Procedures) |-> <<>>]]

NotDeclared == [status |-> "none", err |-> "none", prims |-> EmptyMap]

\* _make_primitive(kls, func, kls.<func>): the primitive, or the exception
\* the attribute accesses raise
make_primitive(kls, func) ==
    LET argnames == kls.params[func]
        useful   == SelectSeq(argnames, LAMBDA a : IsIn(a, kls.ain))
        ain      == CASE func = "opr" -> kls.ain
                      [] func = "vjp" -> useful \o Prefixed(kls.aout)
                      [] func = "jvp" -> useful \o Suffixed(kls.ain)
        aout     == CASE func = "opr" -> kls.aout
                      [] func = "vjp" -> Prefixed(kls.ain)
                      [] func = "jvp" -> Suffixed(kls.aout)
    IN  IF {func, "ain", "aout"} \subseteq kls.fields
        THEN [err |-> "none", func |-> func, ain |-> ain, aout |-> aout,
              argnames |-> argnames]
        ELSE [err |-> "AttributeError", func |-> func, ain |-> <<>>, aout |-> <<>>,
              argnames |-> <<>>]

\* the decorator: opr, vjp and jvp are converted in turn
RECURSIVE MakePrimitives(_, _, _)
MakePrimitives(kls, st, k) ==
    IF k > Len(Procedures) THEN [st EXCEPT !.status = "done"]
    ELSE LET prim == make_primitive(kls, Procedures[k])
         IN  IF prim.err # "none"
             THEN [status |-> "done", err |-> prim.err, prims |-> st.prims]
             ELSE MakePrimitives(kls, [st EXCEPT !.prims = Put(@, Procedures[k], prim)],
                                 k + 1)

operator(kls) == MakePrimitives(kls, NotDeclared, 1)

(***************************************************************************)
(* Symbols (symbol.py).  refs is len(self.references).                     *)
(***************************************************************************)
Symbol(name) == [kind |-> "Symbol", name |-> name, value |-> 0, refs |-> 0]

Literal(value) == [kind |-> "Literal", name |-> "", value |-> value, refs |-> 0]

\* a variant of ZeroLiteral that resolves to 1
UnitLiteral == [kind |-> "ZeroLiteral", name |-> "", value |-> 1, refs |-> 0]


ZeroLiteral == [kind |-> "ZeroLiteral", name |-> "", value |-> 0, refs |-> 0]

IsLiteral(s) == s.kind # "Symbol"

vjp_name(s) == "_" \o s.name

jvp_name(s) == s.name \o "_"

(***************************************************************************)
(* Model (model.py).                                                       *)
(***************************************************************************)
EmptyModel ==
    [syms |-> <<>>, symtab |-> EmptyMap, nodes |-> <<>>,
     vin |-> <<>>, vout |-> <<>>, counter |-> 0]

\* a Symbol object comes to exist; its index is Len(syms) afterwards
NewSym(m, s) == [m EXCEPT !.syms = Append(@, s)]

define(m, varname) ==
    LET m1 == NewSym(m, Symbol(varname))
    IN  [m1 EXCEPT !.symtab = Put(@, varname, Len(m1.syms))]

has(m, varname) == varname \in DOMAIN m.symtab

input(m, varname) ==
    LET m1 == define(m, varname)
    IN  [m1 EXCEPT !.vin = Append(@, Len(m1.syms))]

unique_name(m, str) == str \o "@" \o ToString(m.counter + 1)

(***************************************************************************)
(* Arguments of a builder call: a bare Python value (a number, or a list   *)
(* of arguments), a Symbol object (by index), or a node, the Primitive     *)
(* instance a node call returns (by its index in the node list).           *)
(***************************************************************************)
Bare(v) == [bare |-> TRUE, v |-> v]

Sym(k) == [bare |-> FALSE, v |-> k]

\* the Python list [s, ..., s] that holds the Symbol k n times, a bare value
List(k, n) == [bare |-> TRUE, v |-> k, of |-> n]

Node(j) == [bare |-> FALSE, v |-> j, of |-> 0]

IsList(a) == "of" \in DOMAIN a /\ a.bare

\* isinstance(var, Primitive)
IsNode(a) == "of" \in DOMAIN a /\ ~a.bare

\* isinstance(var, Symbol)
IsSymbol(a) == ~a.bare /\ ~IsNode(a)

\* the Python value of a bare argument
ValueOf(a) == IF IsList(a) THEN [j \in 1..a.of |-> Sym(a.v)] ELSE a.v

(***************************************************************************)
(* Primitive (primitive.py): the construction of a node on a model.        *)
(* A constructor returns [m, err]: the model as the call leaves it (what   *)
(* was changed before a raise stays changed) and the exception raised.     *)
(***************************************************************************)
RECURSIVE InferFromInputs(_, _, _)
InferFromInputs(ain, kw, k) ==
    IF k > Len(ain) THEN "undecided"
    ELSE IF ain[k] \notin DOMAIN kw THEN "MissingArgument"
    ELSE IF ~kw[ain[k]].bare THEN "ok"
    ELSE InferFromInputs(ain, kw, k + 1)

\* a variant of _infer_model that looks at the input arguments only
infer_model_inputs_only(op, func, kw) ==
    LET fromin == InferFromInputs(PrimAin(op, func), kw, 1)
    IN  IF fromin # "undecided" THEN fromin ELSE "InferError"

\* Primitive._infer_model: "ok" or the exception
infer_model(op, func, kw) ==
    LET fromin == InferFromInputs(PrimAin(op, func), kw, 1)
        aout   == PrimAout(op, func)
    IN  IF fromin # "undecided" THEN fromin
        ELSE IF \E k \in DOMAIN aout :
                    aout[k] \in DOMAIN kw /\ IsSymbol(kw[aout[k]])
             THEN "ok"
             ELSE "InferError"

\* a variant of the test below that tolerates a single consumer
OverwritesMoreThanOne(var) == var.refs > 1

\* the test guarding a supplied output symbol (primitive.py line 96)
Overwrites(var) == var.refs # 0

\* make_symbol on a node: next(iter(var.varout.values()))
Unpacked(m, j) == m.nodes[j].varout[PrimAout(m.nodes[j].op, m.nodes[j].func)[1]]

\* the loop over kls.ain of Primitive.__init__; st = [m, varin, varin_info, err]
RECURSIVE BindInputs(_, _, _, _)
BindInputs(st, ain, kw, k) ==
    IF k > Len(ain) THEN st
    ELSE IF ain[k] \notin DOMAIN kw THEN [st EXCEPT !.err = "KeyError"]
    ELSE
      LET a   == kw[ain[k]]
          m1  == IF a.bare THEN NewSym(st.m, Literal(ValueOf(a))) ELSE st.m
          var == IF a.bare THEN Len(m1.syms)
                 ELSE IF IsNode(a) THEN Unpacked(st.m, a.v)
                 ELSE a.v
          m2  == [m1 EXCEPT !.syms[var].refs = @ + 1]
      IN  IF IsNode(a) /\ Len(PrimAout(st.m.nodes[a.v].op, st.m.nodes[a.v].func)) > 1
          THEN [st EXCEPT !.err = "UnpackError"]
          ELSE
          BindInputs([m |-> m2,
                      varin |-> Put(st.varin, ain[k], var),
                      varin_info |-> Put(st.varin_info, ain[k], m2.syms[var].refs),
                      err |-> "none"], ain, kw, k + 1)

\* the loop over kls.aout of Primitive.__init__; st = [m, varout, err]
RECURSIVE BindOutputs(_, _, _, _, _)
BindOutputs(st, name, aout, kw, k) ==
    IF k > Len(aout) THEN st
    ELSE IF aout[k] \notin DOMAIN kw THEN
      LET m1 == define(st.m, name \o "-" \o aout[k])
      IN  BindOutputs([m |-> m1, varout |-> Put(st.varout, aout[k], Len(m1.syms)),
                       err |-> "none"], name, aout, kw, k + 1)
    ELSE IF ~IsSymbol(kw[aout[k]]) THEN
      [st EXCEPT !.err = "AttributeError"]
    ELSE IF Overwrites(st.m.syms[kw[aout[k]].v]) THEN
      [st EXCEPT !.err = "OverwritePrecaution"]
    ELSE
      BindOutputs([st EXCEPT !.varout = Put(@, aout[k], kw[aout[k]].v)],
                  name, aout, kw, k + 1)

\* type(self).__name__ of a node.  A node kind called as op(**kw) is an
\* instance of the class operator() returns, which bears the name of the
\* operator; Model.output calls terminal.opr and the transforms call
\* operator.vjp and operator.jvp, the classes _make_primitive names op-func
ClassName(op, func) ==
    IF func = "opr" /\ op # "terminal" THEN op ELSE op \o "-" \o func

\* Primitive.__init__.  src is not a field of the source: it remembers, for a
\* node of a derived graph, the tape record it was made from (0 otherwise).
Primitive(m, op, func, kw, src) ==
    LET inferred == infer_model(op, func, kw)
        ain      == PrimAin(op, func)
        aout     == PrimAout(op, func)
        name     == unique_name(m, ClassName(op, func))
        m1       == [m EXCEPT !.counter = @ + 1]
        ins      == BindInputs([m |-> m1, varin |-> EmptyMap,
                                varin_info |-> EmptyMap, err |-> "none"],
                               ain, kw, 1)
        outs     == BindOutputs([m |-> ins.m, varout |-> EmptyMap, err |-> "none"],
                                name, aout, kw, 1)
        node     == [name |-> name, op |-> op, func |-> func,
                     varin |-> ins.varin, varin_info |-> ins.varin_info,
                     varout |-> outs.varout,
                     kwargs |-> Restrict(kw, (DOMAIN kw) \ (Range(ain) \cup Range(aout))),
                     src |-> src]
    IN  IF inferred # "ok" THEN [m |-> m, err |-> inferred]
        ELSE IF ins.err # "none" THEN [m |-> ins.m, err |-> ins.err]
        ELSE IF outs.err # "none" THEN [m |-> outs.m, err |-> outs.err]
        ELSE [m |-> [outs.m EXCEPT !.nodes = Append(@, node)], err |-> "none"]

\* a variant of Model.output without the test for an output already declared
output_unchecked(m, varname, oldvar) ==
    LET m1  == define(m, varname)
        var == Len(m1.syms)
        t   == Primitive(m1, "terminal", "opr",
                         ("x" :> oldvar) @@ ("y" :> Sym(var)), 0)
    IN  IF t.err # "none" THEN t
        ELSE [m |-> [t.m EXCEPT !.vout = Append(@, var)], err |-> "none"]


\* Model.output for one name
output(m, varname, oldvar) ==
    IF \E k \in DOMAIN m.vout : m.syms[m.vout[k]].name = varname
    THEN [m |-> m, err |-> "ModelError"]
    ELSE
      LET m1  == define(m, varname)
          var == Len(m1.syms)
          t   == Primitive(m1, "terminal", "opr",
                           ("x" :> oldvar) @@ ("y" :> Sym(var)), 0)
      IN  IF t.err # "none" THEN t
          ELSE [m |-> [t.m EXCEPT !.vout = Append(@, var)], err |-> "none"]

(***************************************************************************)
(* Context (core/context.py).  A Context maps symbol names to values.      *)
(***************************************************************************)
IsTerminal(node) == node.op = "terminal" /\ node.func = "opr"

\* the input arguments of a node, in dictionary order
InputArgs(node) == PrimAin(node.op, node.func)

OutputArgs(node) == PrimAout(node.op, node.func)

\* ref.get_symbol_names(): the Context names an input of a node reads
get_symbol_names(m, var) == IF IsLiteral(m.syms[var]) THEN {} ELSE {m.syms[var].name}

\* var.has_reference()
has_reference(m, var) == m.syms[var].refs > 0

\* a variant of result_used that skips nothing
result_used_always(m, node) == TRUE

\* Context.result_used
result_used(m, node) ==
    \/ IsTerminal(node)
    \/ \E a \in DOMAIN node.varout : has_reference(m, node.varout[a])

\* a variant of the slice below that starts one node too late
NodesAfterNext(m, k) == {j \in DOMAIN m.nodes : j > k + 1}

\* the nodes model[k+1:]
NodesAfter(m, k) == {j \in DOMAIN m.nodes : j > k}

\* a variant of remove_unused that removes nothing
remove_nothing(c, m, nodes) == c

\* a variant of remove_unused that spares the entries no node of the graph
\* produces: the initial values
remove_unused_produced(c, m, nodes) ==
    LET used == UNION {UNION {get_symbol_names(m, m.nodes[j].varin[a]) :
                                a \in DOMAIN m.nodes[j].varin} : j \in nodes}
        made == UNION {{m.syms[m.nodes[j].varout[a]].name : a \in DOMAIN m.nodes[j].varout} :
                          j \in DOMAIN m.nodes}
    IN  Restrict(c, used \cup ((DOMAIN c) \ made))


\* Context.remove_unused(nodes), nodes given by their indices
remove_unused(c, m, nodes) ==
    LET used == UNION {UNION {get_symbol_names(m, m.nodes[j].varin[a]) :
                                a \in DOMAIN m.nodes[j].varin} : j \in nodes}
    IN  Restrict(c, used)

\* Symbol.resolve / Literal.resolve / ZeroLiteral.resolve
CanResolve(m, var, c) == IsLiteral(m.syms[var]) \/ m.syms[var].name \in DOMAIN c

resolve(m, var, c) ==
    IF IsLiteral(m.syms[var]) THEN m.syms[var].value ELSE c[m.syms[var].name]

\* the exception a failed lookup in the Context raises (Context is a dict)
ResolveFailure == "KeyError"

\* var.store(context, value) for every output of a node, in dictionary order
RECURSIVE StoreAll(_, _, _, _, _)
StoreAll(c, m, node, out, k) ==
    IF k > Len(OutputArgs(node)) THEN c
    ELSE LET a == OutputArgs(node)[k]
         IN  StoreAll(Put(c, m.syms[node.varout[a]].name, out[a]), m, node, out, k + 1)

(***************************************************************************)
(* The differentiation transforms (autodiff.py).  A tape is a sequence of  *)
(* records [node, impl_kwargs]: the index of the node in the graph and    *)
(* the resolved inputs.  Each step threads st = [m, kw, err]: the graph    *)
(* being built, the keyword arguments collected so far, and the exception. *)
(***************************************************************************)
Reverse(s) == [k \in DOMAIN s |-> s[Len(s) + 1 - k]]

\* a variant of prepare_opr_kwargs that hands the node's own input Symbols to
\* the new node instead of Literals of the recorded values
RECURSIVE pass_opr_symbols(_, _, _, _)
pass_opr_symbols(st, p, impl_kwargs, k) ==
    IF k > Len(InputArgs(p)) THEN st
    ELSE pass_opr_symbols([st EXCEPT !.kw = Put(@, InputArgs(p)[k], Sym(p.varin[InputArgs(p)[k]]))],
                          p, impl_kwargs, k + 1)


\* prepare_opr_kwargs: the recorded inputs, as Literals of the new graph
RECURSIVE prepare_opr_kwargs(_, _, _, _)
prepare_opr_kwargs(st, p, impl_kwargs, k) ==
    IF k > Len(InputArgs(p)) THEN st
    ELSE LET a  == InputArgs(p)[k]
             m1 == NewSym(st.m, Literal(impl_kwargs[a]))
         IN  prepare_opr_kwargs([st EXCEPT !.m = m1, !.kw = Put(@, a, Sym(Len(m1.syms)))],
                                p, impl_kwargs, k + 1)

\* vjp, "initialize 'v'": the adjoints of the node's outputs are inputs
RECURSIVE VjpOutputAdjoints(_, _, _, _)
VjpOutputAdjoints(st, m0, p, k) ==
    IF k > Len(OutputArgs(p)) THEN st
    ELSE LET a    == OutputArgs(p)[k]
             name == vjp_name(m0.syms[p.varout[a]])
         IN  IF ~has(st.m, name) THEN [st EXCEPT !.err = "KeyError"]
             ELSE VjpOutputAdjoints(
                    [st EXCEPT !.kw = Put(@, "_" \o a, Sym(st.m.symtab[name]))],
                    m0, p, k + 1)

\* the test "largest reference_id" of vjp (autodiff.py line 56)
IsLastReference(m0, p, a) == p.varin_info[a] = m0.syms[p.varin[a]].refs

PartialName(m0, p, a) ==
    vjp_name(m0.syms[p.varin[a]]) \o "#" \o ToString(p.varin_info[a])

\* vjp, "create output vjps": the adjoints of the node's inputs are outputs
RECURSIVE VjpInputAdjoints(_, _, _, _)
VjpInputAdjoints(st, m0, p, k) ==
    IF k > Len(InputArgs(p)) THEN st
    ELSE LET a   == InputArgs(p)[k]
             var == m0.syms[p.varin[a]]
             m1  == IF IsLastReference(m0, p, a)
                    THEN define(st.m, vjp_name(var))
                    ELSE define(st.m, PartialName(m0, p, a))
         IN  IF IsLiteral(var) THEN VjpInputAdjoints(st, m0, p, k + 1)
             ELSE VjpInputAdjoints(
                    [st EXCEPT !.m = m1, !.kw = Put(@, "_" \o a, Sym(Len(m1.syms)))],
                    m0, p, k + 1)

\* vjp, "combine partial derivatives"
RECURSIVE VjpCombine(_, _, _, _)
VjpCombine(st, m0, p, k) ==
    IF k > Len(InputArgs(p)) \/ st.err # "none" THEN st
    ELSE LET a   == InputArgs(p)[k]
             var == m0.syms[p.varin[a]]
         IN  IF IsLiteral(var) \/ IsLastReference(m0, p, a)
             THEN VjpCombine(st, m0, p, k + 1)
             ELSE IF ~has(st.m, vjp_name(var)) THEN [st EXCEPT !.err = "KeyError"]
             ELSE LET var_f == st.m.symtab[vjp_name(var)]
                      var_p == st.m.symtab[PartialName(m0, p, a)]
                      m1    == define(st.m, vjp_name(var))
                      sum   == Primitive(m1, "add", "opr",
                                         ("x1" :> Sym(var_f)) @@ ("x2" :> Sym(var_p))
                                            @@ ("y" :> Sym(Len(m1.syms))), 0)
                  IN  VjpCombine([st EXCEPT !.m = sum.m, !.err = sum.err], m0, p, k + 1)

\* the body of vjp's loop for one record of the tape
VjpRecord(m, m0, record) ==
    LET p    == m0.nodes[record.node]
        s1   == prepare_opr_kwargs([m |-> m, kw |-> p.kwargs, err |-> "none"],
                                   p, record.impl_kwargs, 1)
        s2   == VjpOutputAdjoints(s1, m0, p, 1)
        s3   == VjpInputAdjoints(s2, m0, p, 1)
        node == Primitive(s3.m, p.op, "vjp", s3.kw, record.node)
    IN  IF s2.err # "none" THEN [m |-> s2.m, err |-> s2.err]
        ELSE IF node.err # "none" THEN node
        ELSE LET s4 == VjpCombine([m |-> node.m, kw |-> s3.kw, err |-> "none"], m0, p, 1)
             IN  [m |-> s4.m, err |-> s4.err]

RECURSIVE VjpRecords(_, _, _, _)
VjpRecords(st, m0, records, k) ==
    IF k > Len(records) \/ st.err # "none" THEN st
    ELSE VjpRecords(VjpRecord(st.m, m0, records[k]), m0, records, k + 1)

\* Model() as a transform calls it: a graph with no node, no declared input or
\* output and no name defined, created while the Symbol objects of the graph
\* m0 exist; the objects a transform creates come after them
Model(m0) == [EmptyModel EXCEPT !.syms = m0.syms]

RECURSIVE Inputs(_, _, _)
Inputs(m, names, k) ==
    IF k > Len(names) THEN m ELSE Inputs(input(m, names[k]), names, k + 1)

\* "mark outputs": an adjoint that was never defined is a ZeroLiteral
RECURSIVE MarkOutputs(_, _, _)
MarkOutputs(st, names, k) ==
    IF k > Len(names) \/ st.err # "none" THEN st
    ELSE LET m1     == IF has(st.m, names[k]) THEN st.m ELSE NewSym(st.m, ZeroLiteral)
             varout == IF has(st.m, names[k]) THEN st.m.symtab[names[k]] ELSE Len(m1.syms)
         IN  MarkOutputs(output(m1, names[k], Sym(varout)), names, k + 1)

\* a variant of vjp that marks the adjoints of the declared outputs, as jvp
\* marks their tangents
vjp_marks_vout(m0, tp) ==
    LET m1 == Inputs(Model(m0), [k \in DOMAIN m0.vout |-> vjp_name(m0.syms[m0.vout[k]])], 1)
        s1 == VjpRecords([m |-> m1, err |-> "none"], m0, Reverse(tp), 1)
    IN  MarkOutputs(s1, [k \in DOMAIN m0.vout |-> vjp_name(m0.syms[m0.vout[k]])], 1)

vjp(m0, tp) ==
    LET m1 == Inputs(Model(m0), [k \in DOMAIN m0.vout |-> vjp_name(m0.syms[m0.vout[k]])], 1)
        s1 == VjpRecords([m |-> m1, err |-> "none"], m0, Reverse(tp), 1)
    IN  MarkOutputs(s1, [k \in DOMAIN m0.vin |-> vjp_name(m0.syms[m0.vin[k]])], 1)

\* jvp, "initialize 'v'": the tangents of the node's inputs
RECURSIVE JvpInputTangents(_, _, _, _)
JvpInputTangents(st, m0, p, k) ==
    IF k > Len(InputArgs(p)) THEN st
    ELSE LET a   == InputArgs(p)[k]
             var == m0.syms[p.varin[a]]
             m1  == NewSym(st.m, ZeroLiteral)
         IN  IF IsLiteral(var)
             THEN JvpInputTangents(
                    [st EXCEPT !.m = m1, !.kw = Put(@, a \o "_", Sym(Len(m1.syms)))],
                    m0, p, k + 1)
             ELSE IF ~has(st.m, jvp_name(var)) THEN [st EXCEPT !.err = "KeyError"]
             ELSE JvpInputTangents(
                    [st EXCEPT !.kw = Put(@, a \o "_", Sym(st.m.symtab[jvp_name(var)]))],
                    m0, p, k + 1)

\* jvp, "create output symbols"
RECURSIVE JvpOutputTangents(_, _, _, _)
JvpOutputTangents(st, m0, p, k) ==
    IF k > Len(OutputArgs(p)) THEN st
    ELSE LET a  == OutputArgs(p)[k]
             m1 == define(st.m, jvp_name(m0.syms[p.varout[a]]))
         IN  JvpOutputTangents(
                [st EXCEPT !.m = m1, !.kw = Put(@, a \o "_", Sym(Len(m1.syms)))],
                m0, p, k + 1)

JvpRecord(m, m0, record) ==
    LET p  == m0.nodes[record.node]
        s1 == prepare_opr_kwargs([m |-> m, kw |-> p.kwargs, err |-> "none"],
                                 p, record.impl_kwargs, 1)
        s2 == JvpInputTangents(s1, m0, p, 1)
        s3 == JvpOutputTangents(s2, m0, p, 1)
    IN  IF s2.err # "none" THEN [m |-> s2.m, err |-> s2.err]
        ELSE Primitive(s3.m, p.op, "jvp", s3.kw, record.node)

RECURSIVE JvpRecords(_, _, _, _)
JvpRecords(st, m0, records, k) ==
    IF k > Len(records) \/ st.err # "none" THEN st
    ELSE JvpRecords(JvpRecord(st.m, m0, records[k]), m0, records, k + 1)

\* a variant of jvp that walks the tape backwards, as vjp does
jvp_reversed(m0, tp) ==
    LET m1 == Inputs(Model(m0), [k \in DOMAIN m0.vin |-> jvp_name(m0.syms[m0.vin[k]])], 1)
        s1 == JvpRecords([m |-> m1, err |-> "none"], m0, Reverse(tp), 1)
    IN  MarkOutputs(s1, [k \in DOMAIN m0.vout |-> jvp_name(m0.syms[m0.vout[k]])], 1)

jvp(m0, tp) ==
    LET m1 == Inputs(Model(m0), [k \in DOMAIN m0.vin |-> jvp_name(m0.syms[m0.vin[k]])], 1)
        s1 == JvpRecords([m |-> m1, err |-> "none"], m0, tp, 1)
    IN  MarkOutputs(s1, [k \in DOMAIN m0.vout |-> jvp_name(m0.syms[m0.vout[k]])], 1)

(***************************************************************************)
(* The builder: the calls a user makes on the graph under construction.    *)
(***************************************************************************)
InputNames == <<"a", "b", "d">>

\* the k-th declared output is named OutputNames[k]; the second reuses the
\* name of an input, as m.output(a=a) of the tests does
OutputNames == <<"c", "a", "e", "f", "g">>

NoCall == [call |-> "none", op |-> "none", pos |-> 0, kw |-> EmptyMap, err |-> "none"]

\* the Symbols a caller holds once the values returned are unpacked, as in
\* a, = m.input('a') and y, = node (Primitive.__iter__): the declared inputs
\* and the outputs of the nodes (m.output returns nothing)
Handles(m) ==
    {k \in DOMAIN m.syms :
        /\ ~IsLiteral(m.syms[k])
        /\ ~\E j \in DOMAIN m.vout : m.vout[j] = k}

\* the values the calls return: m.input(name) returns the list [symbol], a
\* node call returns the node
ReturnedValues(m) ==
    {List(m.vin[k], 1) : k \in DOMAIN m.vin}
        \cup {Node(j) : j \in {j \in DOMAIN m.nodes : m.nodes[j].op # "terminal"}}

\* the arguments of the calls of a graph that is then executed: a number, or
\* a Symbol unpacked
Args(m) == {Bare(2)} \cup {Sym(k) : k \in Handles(m)}

\* every argument: a number, a Symbol unpacked, or a value as returned
AllArgs(m) == Args(m) \cup ReturnedValues(m)

\* the ways to call a node kind by keyword: each input and the output
\* omitted or given, the arguments given being all numbers and Symbols
\* unpacked, or all values as returned
AllKwargs(m, op) ==
    LET ins  == Range(Ain(op))
        outs == Range(Aout(op))
    IN  UNION {[D -> Args(m)] \cup [D -> ReturnedValues(m)] : D \in SUBSET (ins \cup outs)}

\* the node calls of a graph that is then executed and differentiated:
\* mul with both inputs given, the first one a Symbol, and its output
\* generated; add with both inputs the same Symbol and its output given
GraphCalls(m) ==
    LET auto == {kw \in [Range(Ain("mul")) -> Args(m)] : ~kw[Ain("mul")[1]].bare}
    IN  {<<"mul", kw>> : kw \in auto}
          \cup {<<"add", [a \in Range(Ain("add")) |-> Sym(k[1])] @@ (Aout("add")[1] :> Sym(k[2]))>> :
                   k \in Handles(m) \X Handles(m)}

\* every node call: both node kinds with every choice of keyword arguments
Ops == {"add", "mul"}

AllCalls(m) == {<<op, kw>> : <<op, kw>> \in UNION {{op} \X AllKwargs(m, op) : op \in Ops}}

Building == pc = "build"

UnchangedRun == UNCHANGED <<opt, seg, first, dprev, opdecl, declared, target, pc, i, ctx, ctx0, tape, r, vout, single_return, cerr, result,
                            calls, stored, otape, dmodel, derr>>

\* m.input(name)
DeclareInput ==
    /\ Building
    /\ failed = 0
    /\ Len(model.vin) < MaxInputs
    /\ Len(model.vin) < Len(InputNames)
    /\ Len(model.syms) = Len(model.vin)
    /\ model' = input(model, InputNames[Len(model.vin) + 1])
    /\ last' = [NoCall EXCEPT !.call = "input"]
    /\ UNCHANGED failed
    /\ UnchangedRun

\* op(**kw): the construction of a node
NodeCall(op, kw) ==
    /\ Building
    /\ failed < MaxFailed
    /\ Len(model.nodes) < MaxNodes
    /\ LET res == Primitive(model, op, "opr", kw, 0)
       IN  /\ model' = res.m
           /\ last' = [call |-> "node", op |-> op, pos |-> 0, kw |-> kw, err |-> res.err]
           /\ failed' = IF res.err = "none" THEN failed ELSE MaxFailed
    /\ UnchangedRun

\* the call of a node kind with pos positional arguments and keywords kw:
\* Primitive.__init__(self, **kwargs) takes keywords only, so Python rejects
\* the call before the body runs
Call(m, op, func, pos, kw) ==
    IF pos > 0 THEN [m |-> m, err |-> "TypeError"]
    ELSE Primitive(m, op, func, kw, 0)

\* op(v, ..., **kw): a node call with positional arguments
PositionalCall(op, pos, kw) ==
    /\ Building
    /\ failed < MaxFailed
    /\ Len(model.nodes) < MaxNodes
    /\ LET res == Call(model, op, "opr", pos, kw)
       IN  /\ model' = res.m
           /\ last' = [call |-> "node", op |-> op, pos |-> pos, kw |-> kw, err |-> res.err]
           /\ failed' = IF res.err = "none" THEN failed ELSE MaxFailed
    /\ UnchangedRun

\* m.output(name=var)
OutputCall(name, var) ==
    /\ Building
    /\ failed < MaxFailed
    /\ Len(model.nodes) < MaxNodes
    /\ LET res == output(model, name, var)
       IN  /\ model' = res.m
           /\ last' = [call |-> "output", op |-> name, pos |-> 0, kw |-> ("x" :> var),
                       err |-> res.err]
           /\ failed' = IF res.err = "none" THEN failed ELSE MaxFailed
    /\ UnchangedRun

(***************************************************************************)
(* Context.compute, one action per step of its loop.                       *)
(***************************************************************************)
CurModel == IF target = "opr" THEN model ELSE dmodel

VoutNames(m) == {m.syms[m.vout[k]].name : k \in DOMAIN m.vout}

\* a variant of the check below that accepts every request
UnexpectedNever(m, req) == FALSE

\* the check of the requested names (context.py lines 50-54)
Unexpected(m, req) == \E k \in DOMAIN req : req[k] \notin VoutNames(m)

\* vout as compute is given it: one name as a str, or a list of names
Str(name) == [str |-> TRUE, names |-> <<name>>]

Names(list) == [str |-> FALSE, names |-> list]

\* the request of the running compute, as it was given
Given == [str |-> single_return, names |-> vout]

\* compute, up to the loop
BeginCompute(m, init, req) ==
    /\ ctx' = init
    /\ ctx0' = init
    /\ stored' = init
    /\ tape' = <<>>
    /\ r' = EmptyMap
    /\ vout' = req.names
    /\ single_return' = req.str
    /\ calls' = <<>>
    /\ result' = <<>>
    /\ i' = 1
    /\ IF Unexpected(m, req.names)
       THEN cerr' = "UnexpectedOutput" /\ pc' = "error"
       ELSE cerr' = "none" /\ pc' = IF m.nodes = <<>> THEN "return" ELSE "node"

\* the top of the loop body: result_used, and the first half of
\* Context.execute (resolve the inputs, append to the tape)
\* the parameters of the procedure that are not inputs of the node: "the
\* extra arguments used by the impl"
ExtraArgs(node) == Range(Argnames(node.op, node.func)) \ DOMAIN node.varin

\* kwargs as execute hands them to the procedure
WithExtras(node, resolved) ==
    [a \in (DOMAIN resolved) \cup ExtraArgs(node) |->
        IF a \in DOMAIN resolved THEN resolved[a] ELSE node.kwargs[a].v]

Execute ==
    /\ pc = "node"
    /\ LET m    == CurModel
           node == m.nodes[i]
       IN  IF ~result_used(m, node)
           THEN pc' = "evict" /\ UNCHANGED <<tape, cerr>>
           ELSE IF \E a \in DOMAIN node.varin : ~CanResolve(m, node.varin[a], ctx)
           THEN pc' = "error" /\ cerr' = ResolveFailure /\ UNCHANGED tape
           ELSE IF ExtraArgs(node) \ DOMAIN node.kwargs # {}
           THEN pc' = "error" /\ cerr' = "KeyError" /\ UNCHANGED tape
           ELSE /\ tape' = Append(tape,
                      [node |-> i,
                       impl_kwargs |-> [a \in DOMAIN node.varin |->
                                           resolve(m, node.varin[a], ctx)]])
                /\ pc' = "call"
                /\ UNCHANGED cerr
    /\ UNCHANGED <<opt, seg, first, dprev, opdecl, declared, model, last, failed, target, i, ctx, ctx0, r, vout, single_return, result,
                   calls, stored, otape, dmodel, derr>>

\* a graph with a to_scalar node (ain = {'x': 'ndarray'}) carries ndarrays
OnArrays(m) == \E k \in DOMAIN m.nodes : m.nodes[k].op = "to_scalar"

\* the 0 a ZeroLiteral resolves to, as numpy takes it in a product or a sum
AsArrays(m, node, kw) ==
    [a \in DOMAIN kw |->
        IF m.syms[node.varin[a]].kind = "ZeroLiteral" THEN <<0>> ELSE kw[a]]

\* node.impl(self, **kwargs): the arithmetic is that of the operands' type
CallImpl(m, node, kw) ==
    IF OnArrays(m) THEN ImplArray(node.op, node.func, AsArrays(m, node, kw))
    ELSE Impl(node.op, node.func, kw)

\* the second half of Context.execute: invoke the procedure, store its outputs
\* a variant of the definition below that stores outputs although the
\* procedure raised
RaiseAfterStore(c, m, node) ==
    StoreAll(c, m, node, [a \in Range(OutputArgs(node)) |-> 0], 1)

\* the Context when node.call raises: the stores that follow the call are
\* not reached
Raise(c, m, node) == c

Invoke ==
    /\ pc = "call"
    /\ LET m    == CurModel
           node == m.nodes[i]
           out  == CallImpl(m, node, WithExtras(node, tape[Len(tape)].impl_kwargs))
       IN  IF Raises(node.op, node.func)
           THEN /\ ctx' = Raise(ctx, m, node)
                /\ cerr' = ProcedureFailure
                /\ pc' = "error"
                /\ UNCHANGED <<calls, stored>>
           ELSE /\ calls' = Append(calls, [node |-> i, out |-> out])
                /\ ctx' = StoreAll(ctx, m, node, out, 1)
                /\ stored' = StoreAll(stored, m, node, out, 1)
                /\ pc' = "evict"
                /\ UNCHANGED cerr
    /\ UNCHANGED <<opt, seg, first, dprev, opdecl, declared, model, last, failed, target, i, ctx0, tape, r, vout, single_return,
                   result, otape, dmodel, derr>>

\* a variant of the step below that stays on the same node
NextIndexStuck(k) == k

\* the index the loop of compute goes to after node k
NextIndex(k) == k + 1

\* the rest of the loop body: collect a terminal's value, evict
Evict ==
    /\ pc = "evict"
    /\ LET m    == CurModel
           node == m.nodes[i]
       IN  /\ r' = IF IsTerminal(node)
                   THEN StoreAll(r, m, node,
                                 [a \in DOMAIN node.varout |->
                                     ctx[m.syms[node.varout[a]].name]], 1)
                   ELSE r
           /\ ctx' = remove_unused(ctx, m, NodesAfter(m, i))
           /\ i' = NextIndex(i)
           /\ pc' = IF NextIndex(i) > Len(m.nodes) THEN "return" ELSE "node"
    /\ UNCHANGED <<opt, seg, first, dprev, opdecl, declared, model, last, failed, target, ctx0, tape, vout, single_return, cerr, result,
                   calls, stored, otape, dmodel, derr>>

\* after the loop: the requested values are returned
Return ==
    /\ pc = "return"
    /\ IF \A k \in DOMAIN vout : vout[k] \in DOMAIN r
       THEN result' = (IF single_return THEN r[vout[1]]
                       ELSE [k \in DOMAIN vout |-> r[vout[k]]]) /\ pc' = "done"
                /\ UNCHANGED cerr
       ELSE cerr' = "KeyError" /\ pc' = "error" /\ UNCHANGED result
    /\ UNCHANGED <<opt, seg, first, dprev, opdecl, declared, model, last, failed, target, i, ctx, ctx0, tape, r, vout, single_return,
                   calls, stored, otape, dmodel, derr>>

(***************************************************************************)
(* The driver: compute on the graph built, a transform of its tape, and    *)
(* compute on the derived graph.                                           *)
(***************************************************************************)
InputValue(name) ==
    CASE name = "a" -> 2 [] name = "b" -> 3 [] name = "d" -> 5 [] OTHER -> 1

\* the initial values: every declared input, or all but one, or one more
Inits(m) ==
    LET names == {m.syms[m.vin[k]].name : k \in DOMAIN m.vin}
        full  == [n \in names |-> InputValue(n)]
    IN  {full} \cup {Restrict(full, names \ {n}) : n \in names}
               \cup {Put(full, "z", 1)}

AllOutputs(m) == [k \in DOMAIN m.vout |-> m.syms[m.vout[k]].name]

\* the requests: one declared output or an undeclared name, as a str, or
\* the list of all declared outputs
Requests(m) ==
    {Str(n) : n \in VoutNames(m) \cup {"nope"}} \cup {Names(AllOutputs(m))}

FullInit(m) == [n \in {m.syms[m.vin[k]].name : k \in DOMAIN m.vin} |-> InputValue(n)]

\* the executions of a graph: every request with every input given, and
\* every set of initial values with all outputs requested
Runs(m) == ({FullInit(m)} \X Requests(m)) \cup (Inits(m) \X {Names(AllOutputs(m))})

\* m.compute(vout=req, init=init, return_tape=True) on the graph built
ComputeGraph(init, req) ==
    /\ Building
    /\ model.vout # <<>>
    /\ target' = "opr"
    /\ last' = NoCall
    /\ BeginCompute(model, init, req)
    /\ UNCHANGED <<opt, seg, first, dprev, opdecl, declared, model, failed, otape, dmodel, derr>>

NoRun == [set |-> FALSE, result |-> <<>>, tape |-> <<>>]

NoTransform == [set |-> FALSE, m |-> EmptyModel, err |-> "none"]

\* a second m.compute(vout=req, init=init, return_tape=True) on the same
\* graph, with the initial values and the request of the first
Recompute ==
    /\ target = "opr"
    /\ pc = "done"
    /\ ~first.set
    /\ first' = [set |-> TRUE, result |-> result, tape |-> tape]
    /\ BeginCompute(model, ctx0, Given)
    /\ UNCHANGED <<opt, seg, dprev, opdecl, declared, model, last, failed, target, otape,
                   dmodel, derr>>

\* tape.get_vjp() / tape.get_jvp() on the tape of the finished compute
Transform(func) ==
    /\ target = "opr"
    /\ pc = "done"
    /\ ~first.set
    /\ \E res \in {IF func = "vjp" THEN vjp(model, tape) ELSE jvp(model, tape)} :
           /\ dmodel' = res.m
           /\ derr' = res.err
           /\ pc' = IF res.err = "none" THEN "ready" ELSE "failed"
    /\ target' = func
    /\ otape' = tape
    /\ ctx' = EmptyMap /\ ctx0' = EmptyMap /\ stored' = EmptyMap
    /\ tape' = <<>> /\ r' = EmptyMap /\ vout' = <<>> /\ single_return' = FALSE /\ calls' = <<>>
    /\ result' = <<>> /\ i' = 0
    /\ UNCHANGED <<opt, seg, first, dprev, opdecl, declared, model, last, failed, cerr>>

\* compute on the derived graph, every declared input seeded
ComputeDerived(init, req) ==
    /\ target \in {"vjp", "jvp"}
    /\ pc = "ready"
    /\ BeginCompute(dmodel, init, req)
    /\ UNCHANGED <<opt, seg, first, dprev, opdecl, declared, model, last, failed, target, otape, dmodel, derr>>

\* the same transform applied to the same tape a second time
Retransform ==
    /\ target \in {"vjp", "jvp"}
    /\ pc \in {"ready", "failed"}
    /\ \E res \in {IF target = "vjp" THEN vjp(model, otape) ELSE jvp(model, otape)} :
           /\ dmodel' = res.m
           /\ derr' = res.err
    /\ dprev' = [set |-> TRUE, m |-> dmodel, err |-> derr]
    /\ pc' = "again"
    /\ UNCHANGED <<opt, seg, first, opdecl, declared, model, last, failed, target, i, ctx, ctx0,
                   tape, r, vout, single_return, cerr, result, calls, stored, otape>>

(***************************************************************************)
(* The optimizers of abopt.py, on a problem of one dimension whose vectors *)
(* are Python floats. A float is modelled as the exact fraction            *)
(* <<numerator, denominator>> in lowest terms with a positive denominator. *)
(***************************************************************************)
RECURSIVE gcd(_, _)
gcd(a, b) == IF b = 0 THEN a ELSE gcd(b, a % b)

Lowest(n, d, k) == <<n \div k, d \div k>>

Frac(n, d) ==
    IF d < 0 THEN Lowest(-n, -d, gcd(IF n < 0 THEN -n ELSE n, -d))
    ELSE Lowest(n, d, gcd(IF n < 0 THEN -n ELSE n, d))

Zero == <<0, 1>>
One  == <<1, 1>>

FNeg(a) == <<-a[1], a[2]>>
FAbs(a) == <<IF a[1] < 0 THEN -a[1] ELSE a[1], a[2]>>
FAdd(a, b) == Frac(a[1] * b[2] + b[1] * a[2], a[2] * b[2])
FSub(a, b) == FAdd(a, FNeg(b))
FMul(a, b) == Frac(a[1] * b[1], a[2] * b[2])
FDiv(a, b) == Frac(a[1] * b[2], a[2] * b[1])
FLess(a, b) == a[1] * b[2] < b[1] * a[2]
FMax(a, b) == IF FLess(a, b) THEN b ELSE a

\* addmul(a, b, s) is a + b * s
default_addmul(a, b, s) == FAdd(a, FMul(b, s))

\* of two floats: float(a * b)
default_dot(a, b) == FMul(a, b)

\* Optimizer.copy: addmul(a, a, 0), that is 1.0 * a
copy(a) == a

\* Optimizer.mul: addmul(0, a, s), that is a * s
mul(a, s) == FMul(a, s)

\* dot(v, v) ** 0.5 of a vector of one component
Norm(v) == FAbs(v)

\* The problem handed to minimize: the objective a * x ** 2 and its gradient.
objective(p, x) == FMul(p.a, FMul(x, x))
gradient(p, x) == FMul(<<2, 1>>, FMul(p.a, x))

None == [kls |-> "None", msg |-> ""]
Converged(msg) == [kls |-> "Converged", msg |-> msg]
BadDirection(msg) == [kls |-> "BadDirection", msg |-> msg]
TooManySteps(msg) == [kls |-> "TooManySteps", msg |-> msg]

\* the constants of the line searches and of LBFGS.one
tau_linesearch == <<1, 2>>
c_linesearch == <<1, 100000>>
tau_blind == <<2, 1>>
BadAngle == <<1, 100>>

\* the defaults of the parameters
DefaultTol == <<1, 1000000>>
DefaultGtol == <<1, 1000000>>
DefaultMaxsteps == 1000
DefaultCsteps == 3
DefaultMinsteps == 10
DefaultM == 10

\* BaseState.__init__ followed by LBFGS.State.__init__; dy is <<>> for None
State(p, x0) ==
    [it |-> 0, x |-> copy(x0), y |-> objective(p, copy(x0)), g |-> gradient(p, copy(x0)),
     fev |-> 1, gev |-> 1, dy |-> <<>>, status |-> None,
     rho |-> <<>>, S |-> <<>>, Y |-> <<>>, H0k |-> One]

gnorm(st) == Norm(st.g)

\* no minimize is running
Idle ==
    [pc |-> "idle", kind |-> "none", problem |-> [a |-> One], config |-> <<>>,
     state |-> State([a |-> One], Zero), converged_iters |-> 0, err |-> "none", passed |-> <<>>]

\* LBFGS.converged
converged(o, y1) ==
    LET valmax == FMax(FAbs(y1), FAbs(o.state.y))
        thresh == FAdd(FMul(o.config.tol, FMax(valmax, One)), o.config.atol)
    IN  FLess(FAbs(FSub(y1, o.state.y)), thresh) /\ ~FLess(o.state.y, y1)

\* a trial point of a line search: x1, y1 and the evaluation counters after it
Trial(o, rate, x1, fev, gev) ==
    [rate |-> rate, x1 |-> x1, y1 |-> objective(o.problem, x1), fev |-> fev, gev |-> gev]

Try(o, z, rate, fev, gev) == Trial(o, rate, default_addmul(o.state.x, z, FNeg(rate)), fev, gev)

\* the loop of linesearch, entered with the trial point s
RECURSIVE linesearch_while(_, _, _, _)
linesearch_while(o, z, zg, s) ==
    IF converged(o, s.y1) THEN s
    ELSE IF ~FLess(FSub(o.state.y, s.y1), FMul(FMul(s.rate, c_linesearch), zg)) THEN s
    ELSE linesearch_while(o, z, zg, Try(o, z, FMul(s.rate, tau_linesearch), s.fev + 1, s.gev))

linesearch(o, z, zg, rate, fev, gev) == linesearch_while(o, z, zg, Try(o, z, rate, fev + 1, gev))

\* the loop of blind_linesearch, entered after the trial point s with dy
RECURSIVE blind_while(_, _, _, _)
blind_while(o, z, s, dy) ==
    LET n == Try(o, z, FMul(s.rate, tau_blind), s.fev + 1, s.gev + 1)
    IN  IF FLess(FDiv(default_dot(gradient(o.problem, n.x1), o.state.g), gnorm(o.state)), BadAngle)
        THEN n
        ELSE IF FLess(FSub(o.state.y, n.y1), dy) THEN n
        ELSE blind_while(o, z, n, FSub(o.state.y, n.y1))

blind_start(o, z, s) == blind_while(o, z, s, FSub(o.state.y, s.y1))

blind_end(o, z, zg, b) == linesearch(o, z, zg, b.rate, b.fev, b.gev)

blind_linesearch(o, z, zg, rate) ==
    blind_end(o, z, zg, blind_start(o, z, Try(o, z, rate, o.state.fev + 1, o.state.gev)))

\* the first loop of LBFGS.one: over range(len(state.S))
RECURSIVE first_loop(_, _, _, _)
first_loop(st, k, q, alpha) ==
    IF k > Len(st.S) THEN [q |-> q, alpha |-> alpha]
    ELSE first_loop(st, k + 1,
                    default_addmul(q, st.Y[k], FNeg(FMul(st.rho[k], default_dot(st.S[k], q)))),
                    Append(alpha, FMul(st.rho[k], default_dot(st.S[k], q))))

\* the second loop of LBFGS.one: over reversed(range(len(state.S)))
RECURSIVE second_loop(_, _, _, _)
second_loop(st, k, z, alpha) ==
    IF k < 1 THEN z
    ELSE second_loop(st, k - 1,
                     default_addmul(z, st.S[k], FSub(alpha[k], FMul(st.rho[k], default_dot(st.Y[k], z)))),
                     alpha)

two_loops(st, fl) == second_loop(st, Len(st.S), mul(fl.q, st.H0k), fl.alpha)

\* the direction z of LBFGS.one
direction(st) == two_loops(st, first_loop(st, 1, copy(st.g), <<>>))

\* what LBFGS.one hands back: the state, the error it raised, and whether
\* the iteration passed the test of converged
Raised(o, err) == [state |-> o.state, err |-> err, passed |-> FALSE]

Front(s, m) == IF Len(s) > m THEN SubSeq(s, 1, Len(s) - 1) ELSE s

\* the hessian update of LBFGS.one and the move to the new point
\* the state is changed in place: when 1.0 / ys or ys / yy raises, S and Y
\* already hold the new pair, the status is BadDirection and the evaluations
\* of the line search are counted
hessian(o, s, g1, ys, yy) ==
    IF ys = Zero
    THEN [state |-> [o.state EXCEPT
                        !.S = <<FSub(s.x1, o.state.x)>> \o @,
                        !.Y = <<FSub(g1, o.state.g)>> \o @,
                        !.status = IF yy = Zero
                                   THEN BadDirection("LBFGS didn't move for some reason yy is 0, QUITTING")
                                   ELSE BadDirection("LBFGS didn't move for some reason ys is 0, QUITTING"),
                        !.fev = s.fev, !.gev = s.gev + 1],
          err |-> "ZeroDivisionError", passed |-> FALSE]
    ELSE IF yy = Zero
    THEN [state |-> [o.state EXCEPT
                        !.S = Front(<<FSub(s.x1, o.state.x)>> \o @, o.config.m),
                        !.Y = Front(<<FSub(g1, o.state.g)>> \o @, o.config.m),
                        !.rho = Front(<<FDiv(One, ys)>> \o @, o.config.m),
                        !.status = BadDirection("LBFGS didn't move for some reason yy is 0, QUITTING"),
                        !.fev = s.fev, !.gev = s.gev + 1],
          err |-> "ZeroDivisionError", passed |-> FALSE]
    ELSE [state |-> [o.state EXCEPT
                        !.S = Front(<<FSub(s.x1, o.state.x)>> \o @, o.config.m),
                        !.Y = Front(<<FSub(g1, o.state.g)>> \o @, o.config.m),
                        !.rho = Front(<<FDiv(One, ys)>> \o @, o.config.m),
                        !.H0k = FDiv(ys, yy),
                        !.dy = <<FAbs(FSub(s.y1, o.state.y))>>,
                        !.x = s.x1, !.y = s.y1, !.g = g1,
                        !.fev = s.fev, !.gev = s.gev + 1,
                        !.it = @ + 1],
          err |-> "none", passed |-> FALSE]

single(o, s, g1) ==
    [state |-> [o.state EXCEPT
                   !.status = Converged("A single convergence"),
                   !.dy = <<FAbs(FSub(s.y1, o.state.y))>>,
                   !.x = s.x1, !.y = s.y1, !.g = g1,
                   !.fev = s.fev, !.gev = s.gev + 1,
                   !.it = @ + 1],
     err |-> "none", passed |-> TRUE]

update(o, s, g1) ==
    IF converged(o, s.y1) THEN single(o, s, g1)
    ELSE hessian(o, s, g1,
                 default_dot(FSub(s.x1, o.state.x), FSub(g1, o.state.g)),
                 default_dot(FSub(g1, o.state.g), FSub(g1, o.state.g)))

moved(o, s) == update(o, s, gradient(o.problem, s.x1))

search(o, z, zg, use_steepest_descent) ==
    IF o.state.it = 0 \/ use_steepest_descent
    THEN IF gnorm(o.state) = Zero THEN Raised(o, "ZeroDivisionError")
         ELSE moved(o, blind_linesearch(o, z, zg, FDiv(One, gnorm(o.state))))
    ELSE moved(o, linesearch(o, z, zg, One, o.state.fev, o.state.gev))

angle(o, z, zg) ==
    IF FLess(IF gnorm(o.state) = Zero THEN Zero ELSE FDiv(zg, gnorm(o.state)), BadAngle)
    THEN search(o, copy(o.state.g), One, TRUE)
    ELSE search(o, z, zg, FALSE)

descend(o, z) ==
    angle(o, z, IF Norm(z) = Zero THEN Zero ELSE FDiv(default_dot(z, o.state.g), Norm(z)))

\* LBFGS.one
one(o) == descend(o, direction(o.state))

IsConverged(status) == status.kls = "Converged"

\* LBFGS.minimize, the loop body after one: the state it leaves, and whether
\* the loop was left
Left(st, ci) == [state |-> st, converged_iters |-> ci, pc |-> "returned"]

marks(o, st) ==
    LET s1 == IF FLess(gnorm(st), o.config.gtol)
              THEN Converged("YES: Gradient tolerance achieved") ELSE st.status
        s2 == IF o.config.ymin # <<>> /\ FLess(st.y, o.config.ymin[1])
              THEN Converged("YES: Objective below threshold.") ELSE s1
    IN  IF st.it > o.config.maxsteps
        THEN TooManySteps("maximum number of iterations reached. QUITTING.") ELSE s2

counted(o, st, ci) ==
    IF st.status # None THEN Left(st, ci)
    ELSE IF ci >= o.config.csteps /\ st.it >= o.config.minsteps
    THEN Left([st EXCEPT !.status = Converged("YES: Tolerance achieved")], ci)
    ELSE [state |-> [st EXCEPT !.status = marks(o, st)], converged_iters |-> ci, pc |-> "loop"]

after_one(o, st) ==
    IF IsConverged(st.status)
    THEN counted(o, [st EXCEPT !.status = None], o.converged_iters + 1)
    ELSE counted(o, st, 0)

(***************************************************************************)
(* CodeSegment.compute of vmad2.py.  Values are objects: an object is an   *)
(* index into the heap, and the heap holds the content of every object.    *)
(* The frontier and the records of the tape map names to objects.  The     *)
(* engine has three instructions: inc adds 1 to its argument in place (the *)
(* argument is a declared input and output), add writes the sum of two     *)
(* inputs to a new object, ident hands its input object on as its output.  *)
(***************************************************************************)
\* the declared inputs and outputs of the instructions (primitive(ain, aout))
InstrAin(instr) ==
    CASE instr = "inc" -> {"x"} [] instr = "add" -> {"x1", "x2"} [] instr = "ident" -> {"x"}

InstrAout(instr) ==
    CASE instr = "inc" -> {"x"} [] instr = "add" -> {"y"} [] instr = "ident" -> {"y"}

\* Node.__init__: the IArguments, IOArguments and OArguments of a node
IArguments(node) == InstrAin(node.instr) \ InstrAout(node.instr)
IOArguments(node) == InstrAin(node.instr) \cap InstrAout(node.instr)
OArguments(node) == InstrAout(node.instr) \ InstrAin(node.instr)

\* the names a node reads from the frontier
ReadNames(node) == {node.args[a] : a \in IArguments(node) \cup IOArguments(node)}

NoSegment ==
    [pc |-> "idle", nodes |-> <<>>, engine |-> "none", return_tape |-> FALSE,
     heap |-> <<>>, init |-> EmptyMap, frontier |-> EmptyMap, records |-> <<>>,
     i |-> 0, err |-> "none", r |-> <<>>, vout |-> "a"]

\* a variant of copy that returns its argument
same_object(heap, o) == [heap |-> heap, obj |-> o, err |-> "none"]

\* the fallback copy = lambda x: x * 1.0 (a new object of equal content)
copy_fallback(heap, o) == [heap |-> Append(heap, heap[o]), obj |-> Len(heap) + 1, err |-> "none"]

\* copy = self.engine.Copy.body, called with the value alone: the body of an
\* instruction takes the engine first and its arguments after it
copy_engine(heap, o) == [heap |-> heap, obj |-> o, err |-> "TypeError"]

\* Tape.append(node, frontier); seen is not in the source: it keeps the
\* content each recorded object had when it was recorded
TapeAppend(s, node) ==
    Append(s.records,
           [node |-> s.i,
            d |-> [n \in ReadNames(node) |-> s.frontier[n]],
            seen |-> [n \in ReadNames(node) |-> s.heap[s.frontier[n]]],
            handed |-> EmptyMap])

\* the loop over the IOArguments that replaces their frontier entries by
\* copies; names is the set of names still to do
RECURSIVE CopyArguments(_, _)
CopyArguments(s, names) ==
    IF names = {} \/ s.err # "none" THEN s
    ELSE LET n == CHOOSE n \in names : TRUE
             c == IF s.engine = "Copy" THEN copy_engine(s.heap, s.frontier[n])
                  ELSE copy_fallback(s.heap, s.frontier[n])
         IN  CopyArguments([s EXCEPT !.heap = c.heap, !.err = c.err,
                                     !.frontier = IF c.err = "none" THEN Put(@, n, c.obj) ELSE @],
                           names \ {n})

\* Primitive.NodeType.invoke: bind and call the body.  The heap after the
\* body ran and the out dictionary of the LValues it assigned.
invoke(s, node) ==
    LET arg(a) == s.frontier[node.args[a]]
    IN  CASE node.instr = "inc" ->
                 [heap |-> [s.heap EXCEPT ![arg("x")] = @ + 1], out |-> EmptyMap]
          [] node.instr = "add" ->
                 [heap |-> Append(s.heap, s.heap[arg("x1")] + s.heap[arg("x2")]),
                  out |-> (node.args["y"] :> (Len(s.heap) + 1))]
          [] node.instr = "ident" ->
                 [heap |-> s.heap, out |-> (node.args["y"] :> arg("x"))]


Seeds(m) == {[n \in {m.syms[m.vin[k]].name : k \in DOMAIN m.vin} |-> v] : v \in {1}}

Next ==
    \/ DeclareInput
    \/ Building /\ \E c \in GraphCalls(model) : NodeCall(c[1], c[2])
    \/ Building /\ \E var \in Args(model) : OutputCall(OutputNames[Len(model.vout) + 1], var)
    \/ Building /\ \E run \in Runs(model) : ComputeGraph(run[1], run[2])
    \/ Execute
    \/ Invoke
    \/ Evict
    \/ Return
    \/ \E func \in {"vjp", "jvp"} : Transform(func)
    \/ pc = "ready" /\ \E init \in Seeds(dmodel) : ComputeDerived(init, Names(AllOutputs(dmodel)))
    \/ Recompute
    \/ Retransform

Init ==
    /\ model = EmptyModel
    /\ last = NoCall
    /\ failed = 0
    /\ target = "none"
    /\ pc = "build"
    /\ i = 0
    /\ ctx = EmptyMap
    /\ ctx0 = EmptyMap
    /\ tape = <<>>
    /\ r = EmptyMap
    /\ vout = <<>>
    /\ single_return = FALSE
    /\ cerr = "none"
    /\ result = <<>>
    /\ calls = <<>>
    /\ stored = EmptyMap
    /\ otape = <<>>
    /\ dmodel = EmptyModel
    /\ derr = "none"
    /\ opdecl = NoDecl
    /\ declared = NotDeclared
    /\ first = NoRun
    /\ dprev = NoTransform
    /\ opt = Idle
    /\ seg = NoSegment

Spec == Init /\ [][Next]_vars

(***************************************************************************)
(* The builder alone, with every kind of node call.                        *)
(***************************************************************************)
\* the names an output call is tried with: the next unused name, and the
\* names already declared as outputs
OutputChoices(m) == {OutputNames[Len(m.vout) + 1]} \cup VoutNames(m)

\* the keyword a list is handed to stack under: x, the input stack declares
\* (lib/linalg.py), and args, the keyword of the tests
ListKeywords == {"x", "args"}

\* stack(x=[s, ..., s], axis=1) and stack(args=[s, ..., s], axis=1), with or
\* without y=t: the list holds the same Symbol one to MaxList times
ListCalls(m) ==
    LET lists == {List(h, k) : k \in 1..MaxList, h \in Handles(m)}
        ins   == {(n :> l) @@ ("axis" :> Bare(1)) : l \in lists, n \in ListKeywords}
    IN  {<<"stack", kw>> : kw \in ins}
          \cup {<<"stack", kw @@ ("y" :> Sym(h))>> : kw \in ins, h \in Handles(m)}

NextBuild ==
    \/ DeclareInput
    \/ Building /\ Len(model.nodes) < MaxWide
           /\ \E c \in AllCalls(model) : NodeCall(c[1], c[2])
    \/ Building /\ Len(model.nodes) < MaxWide
           /\ \E var \in AllArgs(model) : \E name \in OutputChoices(model) :
                 OutputCall(name, var)
    \/ Building /\ Len(model.nodes) < MaxWide
           /\ \E c \in AllCalls(model) : \E pos \in 1..MaxPos : PositionalCall(c[1], pos, c[2])
    \/ Building /\ Len(model.nodes) < MaxWide
           /\ \E c \in ListCalls(model) : NodeCall(c[1], c[2])

SpecBuild == Init /\ [][NextBuild]_vars

(***************************************************************************)
(* The declaration of an operator alone.                                   *)
(***************************************************************************)
\* the classes tried: any set of attributes defined, one or two inputs, and
\* procedures that take all, some or none of the inputs
Declarations ==
    {[fields |-> F, ain |-> ain, aout |-> <<"y">>,
      params |-> ("opr" :> po) @@ ("vjp" :> pv) @@ ("jvp" :> <<"x_">>)] :
        F \in SUBSET AllFields,
        ain \in {<<"x">>, <<"x", "z">>},
        po \in {<<"x">>, <<"x", "z">>, <<>>},
        pv \in {<<"_y">>, <<"_y", "x">>}}

InitDeclare ==
    /\ model = EmptyModel
    /\ last = NoCall
    /\ failed = 0
    /\ target = "none"
    /\ pc = "declare"
    /\ i = 0
    /\ ctx = EmptyMap
    /\ ctx0 = EmptyMap
    /\ tape = <<>>
    /\ r = EmptyMap
    /\ vout = <<>>
    /\ single_return = FALSE
    /\ cerr = "none"
    /\ result = <<>>
    /\ calls = <<>>
    /\ stored = EmptyMap
    /\ otape = <<>>
    /\ dmodel = EmptyModel
    /\ derr = "none"
    /\ opdecl \in Declarations
    /\ declared = NotDeclared
    /\ first = NoRun
    /\ dprev = NoTransform
    /\ opt = Idle
    /\ seg = NoSegment

\* @operator applied to the class
Declare ==
    /\ pc = "declare"
    /\ declared.status = "none"
    /\ declared' = operator(opdecl)
    /\ UNCHANGED <<opt, seg, first, dprev, opdecl, model, last, failed, target, pc, i, ctx, ctx0, tape, r, vout, single_return,
                   cerr, result, calls, stored, otape, dmodel, derr>>

NextDeclare == Declare

SpecDeclare == InitDeclare /\ [][NextDeclare]_vars

(***************************************************************************)
(* The scalar test of the library (testing.py, lib/tests/test_linalg.py):  *)
(* setup means to build x -> model(x) -> to_scalar -> output y, where      *)
(* model is mul(x, 1.0), add(x, 0.0) or copy(x).  The same graph is built  *)
(* by builder calls with keywords, computed at x = arange(n), its tape     *)
(* transformed, and the derived graph computed at _y = 1 or at a unit      *)
(* tangent x_, with the requests of the tests: 'y', '_x' and 'y_'.         *)
(***************************************************************************)
Arange(n) == [k \in 1..n |-> k - 1]

\* row idx of numpy.eye(n)
Eye(n, idx) == [k \in 1..n |-> IF k = idx THEN 1 ELSE 0]

\* setup returns, or raises what a call in it raised
SetupEnds(res) ==
    /\ model' = res.m
    /\ last' = [NoCall EXCEPT !.call = "setup", !.err = res.err]
    /\ failed' = IF res.err = "none" THEN failed ELSE MaxFailed

\* the graphs of the scalar tests: Test_mul, Test_add, Test_copy
TestModels == {"mul", "add", "copy"}

\* the arguments of model(x) of a scalar test, by name
ModelKwargs(kind, x) ==
    CASE kind = "mul" -> ("x1" :> x) @@ ("x2" :> Bare(<<1>>))
      [] kind = "add" -> ("x1" :> x) @@ ("x2" :> Bare(<<0>>))
      [] kind = "copy" -> ("x" :> x)

\* the number of positional arguments model(x) is written with
ModelArity(kind) == IF kind = "copy" THEN 1 ELSE 2

\* BaseScalarTest.setup with model() of the test: x = m.input('x'), then
\* model(x), to_scalar(x) and m.output(y=y).  The test calls both node
\* kinds with positional arguments.
Setup(kind) ==
    /\ Building
    /\ model = EmptyModel
    /\ last = NoCall
    /\ \E m1 \in {input(EmptyModel, "x")} :
       \E r1 \in {Call(m1, kind, "opr", ModelArity(kind), EmptyMap)} :
          IF r1.err # "none" THEN SetupEnds(r1)
          ELSE \E r2 \in {Call(r1.m, "to_scalar", "opr", 1, EmptyMap)} :
                  IF r2.err # "none" THEN SetupEnds(r2)
                  ELSE SetupEnds(output(r2.m, "y", Node(Len(r2.m.nodes))))
    /\ UnchangedRun

\* x, = m.input('x')
InputCall(name) ==
    /\ Building
    /\ failed = 0
    /\ model = EmptyModel
    /\ last = NoCall
    /\ model' = input(model, name)
    /\ last' = [NoCall EXCEPT !.call = "input"]
    /\ UNCHANGED failed
    /\ UnchangedRun

\* the node calls that build the graph of a scalar test by keyword:
\* t = model(x) on the declared input, then y = to_scalar(x=t) on the node
\* returned
ScalarCalls(m) ==
    IF Len(m.vin) # 1 \/ m.vout # <<>> THEN {}
    ELSE IF m.nodes = <<>>
    THEN {<<kind, ModelKwargs(kind, Sym(m.vin[1]))>> : kind \in TestModels}
    ELSE IF Len(m.nodes) = 1 THEN {<<"to_scalar", "x" :> Node(1)>>}
    ELSE {}

\* m.output(y=y) on the node to_scalar returned
ScalarOutputs(m) ==
    IF Len(m.nodes) = 2 /\ m.vout = <<>> THEN {Node(2)} ELSE {}

\* the x recorded in the tape of the scalar test
TapeX ==
    IF "x" \in DOMAIN otape[1].impl_kwargs THEN otape[1].impl_kwargs["x"]
    ELSE otape[1].impl_kwargs["x1"]

\* the length of x in the tape of the scalar test
TapeLen == Len(TapeX)

\* the initial values of the derived graph: _y = 1.0, or x_ a row of eye(n)
TestSeeds ==
    IF target = "vjp" THEN {"_y" :> <<1>>}
    ELSE {"x_" :> Eye(TapeLen, idx) : idx \in 1..TapeLen}

\* the request of test_vjp_finite and of test_jvp_finite
TestRequest == IF target = "vjp" THEN Str("_x") ELSE Str("y_")

NextScalarTest ==
    \/ \E kind \in TestModels : Setup(kind)
    \/ InputCall("x")
    \/ \E c \in ScalarCalls(model) : NodeCall(c[1], c[2])
    \/ \E var \in ScalarOutputs(model) : OutputCall("y", var)
    \/ Building /\ \E n \in 2..MaxLen : ComputeGraph("x" :> Arange(n), Str("y"))
    \/ Execute
    \/ Invoke
    \/ Evict
    \/ Return
    \/ \E func \in {"vjp", "jvp"} : Transform(func)
    \/ pc = "ready" /\ \E init \in TestSeeds : ComputeDerived(init, TestRequest)

SpecScalarTest == Init /\ [][NextScalarTest]_vars

(***************************************************************************)
(* Properties of node construction, checked under SpecBuild.               *)
(***************************************************************************)
LastIsNode == last.call = "node"

\* the last call constructed a node from keyword arguments only
ByKeyword == LastIsNode /\ last.pos = 0

\* the output arguments the last node call supplied
SuppliedOutputs == (DOMAIN last.kw) \cap Range(Aout(last.op))

AllInputsSupplied == Range(Ain(last.op)) \subseteq DOMAIN last.kw

\* the last call named, as an output, a Symbol that has consumers
NamesConsumedOutput ==
    /\ ByKeyword
    /\ \E a \in SuppliedOutputs :
          IsSymbol(last.kw[a]) /\ model.syms[last.kw[a].v].refs > 0

\* C2 as stated: every construction of a node that names a Symbol with one
\* or more consumers as an output argument fails with OverwritePrecaution.
C2_AnyCallOverwrite ==
    NamesConsumedOutput => last.err = "OverwritePrecaution"

\* C2, amended: a construction by keyword that supplies every declared input
\* argument and names a Symbol with one or more consumers (the node under
\* construction included) as an output argument fails with
\* OverwritePrecaution.
C2_OverwriteProtection ==
    (NamesConsumedOutput /\ AllInputsSupplied) => last.err = "OverwritePrecaution"

\* add(x1=s, x2=s, y=s) on a Symbol s nothing consumed before, and a call
\* whose output Symbol had exactly one, earlier, consumer
C2_Witness ==
    /\ LastIsNode
    /\ last.err = "OverwritePrecaution"
    /\ \E a \in SuppliedOutputs :
          /\ IsSymbol(last.kw[a])
          /\ \A b \in Range(Ain(last.op)) : last.kw[b] = last.kw[a]
          /\ model.syms[last.kw[a].v].refs = Len(Ain(last.op))

\* C10 as stated: every node call by keyword that omits at least one
\* declared input argument fails with MissingArgument.
C10_MissingArgument ==
    (ByKeyword /\ ~AllInputsSupplied) => last.err = "MissingArgument"

\* the output arguments the last node call supplied as Symbols
SymbolOutputs == {a \in SuppliedOutputs : IsSymbol(last.kw[a])}

\* the last node call supplied every declared input as a bare value: a
\* number, or a list
AllInputsBare ==
    /\ ByKeyword
    /\ AllInputsSupplied
    /\ \A a \in Range(Ain(last.op)) : last.kw[a].bare

\* C11 as stated: a node call whose inputs are all bare values fails with
\* InferError, whether or not an output argument is supplied.
C11_AllLiteralInferError ==
    AllInputsBare => last.err = "InferError"

\* C11, amended: a node call by keyword whose inputs are all bare values fails with
\* InferError when it supplies no Symbol as an output argument; when it
\* does, the graph is inferred from that Symbol and InferError is not raised.
C11_InferError ==
    AllInputsBare =>
       (last.err = "InferError" <=> SymbolOutputs = {})

\* add(x1=2, x2=2) has raised InferError
C11_Witness ==
    /\ AllInputsBare
    /\ last.op = "add"
    /\ SuppliedOutputs = {}
    /\ last.err = "InferError"

\* C12 as stated: a node call with one or more positional arguments, with
\* or without keyword arguments, fails with BadArgument.
C12_BadArgument ==
    (LastIsNode /\ last.pos > 0) => last.err = "BadArgument"

\* the last call was stack(x=[s, ..., s], axis=1) or
\* stack(args=[s, ..., s], axis=1), its output generated
ListIn == ByKeyword /\ last.op = "stack" /\ SuppliedOutputs = {}

\* the list the last call handed to stack
ListGiven == ValueOf(last.kw[CHOOSE n \in ListKeywords : n \in DOMAIN last.kw])

\* C21, its first step: a value supplied k times to one node as
\* stack(args=[a, ..., a]) is consumed k times by that node, the node is
\* constructed and a has k consuming occurrences to accumulate adjoints over.
C21_ListFanOut ==
    ListIn =>
       /\ last.err = "none"
       /\ model.syms[ListGiven[1].v].refs >= Len(ListGiven)

\* C13 as stated: every call of output with a name that is already a
\* declared output of the graph fails with DuplicatedOutput.
C13_DuplicatedOutput ==
    [][(last'.call = "output" /\ last'.op \in VoutNames(model))
           => last'.err = "DuplicatedOutput"]_vars

(***************************************************************************)
(* Properties of the operator decorator, checked under SpecDeclare.        *)
(***************************************************************************)
Decorated == declared.status = "done"

\* an input name the forward procedure does not take
InputNotTaken ==
    \E a \in Range(opdecl.ain) : a \notin Range(opdecl.params["opr"])

\* C14 as stated: the declaration of an operator fails with BrokenPrimitive
\* when the input set, the output set or a procedure is missing, and fails
\* (with a naming error) when a declared input is absent from the parameter
\* list of the forward procedure.
C14_DeclarationValidated ==
    Decorated =>
       /\ opdecl.fields # AllFields => declared.err = "BrokenPrimitive"
       /\ (opdecl.fields = AllFields /\ InputNotTaken) => declared.err # "none"

(***************************************************************************)
(* Properties of Context.compute, checked under Spec.                      *)
(***************************************************************************)
Computing == pc \in {"node", "call", "evict", "return", "done"}

NodeOf(s) == [k \in DOMAIN s |-> s[k].node]

\* the (node, input argument) pairs of m that consume the Symbol s
Consumptions(m, s) ==
    {o \in UNION {{<<n, a>> : a \in DOMAIN m.nodes[n].varin} : n \in DOMAIN m.nodes} :
        m.nodes[o[1]].varin[o[2]] = s}

\* a non-terminal node none of whose output Symbols is an input of a node of
\* the graph
Unconsumed(m, node) ==
    /\ ~IsTerminal(node)
    /\ \A a \in DOMAIN node.varout : Consumptions(m, node.varout[a]) = {}

\* a terminal node, or a node with an output Symbol whose list of references
\* is not empty
Referenced(m, node) ==
    \/ IsTerminal(node)
    \/ \E a \in DOMAIN node.varout : m.syms[node.varout[a]].refs > 0

\* the nodes 1..n that are Referenced, in declaration order
ReferencedUpTo(m, n) ==
    SelectSeq([k \in 1..n |-> k], LAMBDA j : Referenced(m, m.nodes[j]))

AllNodes(m) == [k \in 1..Len(m.nodes) |-> k]

\* C3 as stated: when compute returns, the tape holds one record for every
\* node of the graph, in declaration order.
C3_EveryNodeRecorded ==
    pc = "done" => NodeOf(tape) = AllNodes(CurModel)

\* C3, amended: the tape receives exactly one record for every node that is
\* a terminal node or has an output Symbol that holds a reference, in
\* declaration order, each appended immediately before the node's procedure
\* is invoked and holding the resolved inputs; the other nodes are neither
\* recorded nor invoked.  Every Symbol a node of the graph consumes holds a
\* reference, so every node with a consumed output is among the recorded
\* ones.
C3_TapeRecords ==
    LET m == CurModel
    IN  /\ Computing =>
             \A j \in DOMAIN m.nodes :
                ~Unconsumed(m, m.nodes[j]) => Referenced(m, m.nodes[j])
        /\ pc = "node" =>
             NodeOf(tape) = ReferencedUpTo(m, i - 1) /\ NodeOf(calls) = NodeOf(tape)
        /\ pc = "call" =>
             /\ NodeOf(tape) = ReferencedUpTo(m, i)
             /\ tape[Len(tape)].node = i
             /\ NodeOf(calls) = ReferencedUpTo(m, i - 1)
        /\ pc = "evict" =>
             NodeOf(tape) = ReferencedUpTo(m, i) /\ NodeOf(calls) = NodeOf(tape)
        /\ pc \in {"return", "done"} =>
             NodeOf(tape) = ReferencedUpTo(m, Len(m.nodes)) /\ NodeOf(calls) = NodeOf(tape)
        /\ Computing =>
             \A k \in DOMAIN tape :
                DOMAIN tape[k].impl_kwargs = DOMAIN m.nodes[tape[k].node].varin

\* a finished compute of a graph with a skipped node between recorded ones
C3_Witness ==
    /\ pc = "done"
    /\ target = "opr"
    /\ Len(tape) >= 2
    /\ \E j \in DOMAIN model.nodes :
          /\ ~Referenced(model, model.nodes[j])
          /\ j < tape[Len(tape)].node
    /\ \E j \in DOMAIN model.nodes :
          ~IsTerminal(model.nodes[j]) /\ ~Unconsumed(model, model.nodes[j])

\* C4 as stated: a non-terminal node none of whose output Symbols is consumed
\* by a node of the graph is never invoked by compute, and a compute of the
\* graphs vjp and jvp derive from the tape never invokes a reverse or tangent
\* node made from it.
C4_UnusedNeverInvoked ==
    /\ Computing =>
          \A k \in DOMAIN calls :
             ~Unconsumed(CurModel, CurModel.nodes[calls[k].node])
    /\ (Computing /\ target \in {"vjp", "jvp"}) =>
          \A k \in DOMAIN calls :
             dmodel.nodes[calls[k].node].src # 0 =>
                ~Unconsumed(model, model.nodes[dmodel.nodes[calls[k].node].src])

\* C5: the nodes are invoked in declaration order, none more than once.
C5_DeclarationOrder ==
    \A j, k \in DOMAIN calls : j < k => calls[j].node < calls[k].node

C5_Witness == pc = "done" /\ target = "opr" /\ Len(calls) >= 3

\* the names the nodes from index k on read
ReadFrom(m, k) ==
    UNION {UNION {get_symbol_names(m, m.nodes[j].varin[a]) :
                    a \in DOMAIN m.nodes[j].varin} :
             j \in {j \in DOMAIN m.nodes : j >= k}}

\* a node has executed and the loop is between two nodes, or past the last
AfterNode == (pc = "node" /\ i > 1) \/ (pc \in {"return", "done"} /\ i > 1)

\* C6: after each node of compute, every entry of the Context is requested
\* as a final output or read by a node still to come.
C6_NoDeadEntry ==
    AfterNode =>
       \A n \in DOMAIN ctx : n \in Range(vout) \/ n \in ReadFrom(CurModel, i)

\* between two nodes, with an entry evicted and another one kept
C6_Witness ==
    /\ pc = "node"
    /\ i > 1
    /\ ctx # EmptyMap
    /\ DOMAIN ctx # DOMAIN stored

\* C7: a value stored in the Context is present, unchanged, when a node that
\* reads its name runs, and every requested output is available on return.
C7_LiveNotEvicted ==
    LET m == CurModel
    IN  /\ (pc = "node" /\ result_used(m, m.nodes[i])) =>
              \A a \in DOMAIN m.nodes[i].varin :
                 \A n \in get_symbol_names(m, m.nodes[i].varin[a]) :
                    n \in DOMAIN stored => (n \in DOMAIN ctx /\ ctx[n] = stored[n])
        /\ pc = "return" => \A k \in DOMAIN vout : vout[k] \in DOMAIN r
        /\ pc = "done" =>
              IF single_return THEN result = r[vout[1]] ELSE Len(result) = Len(vout)
        /\ (pc = "error" /\ cerr = ResolveFailure) =>
              \E a \in DOMAIN m.nodes[i].varin :
                 \E n \in get_symbol_names(m, m.nodes[i].varin[a]) :
                    n \notin DOMAIN stored

\* a node about to run reads an entry while another entry has been evicted
C7_Witness ==
    /\ pc = "node"
    /\ i > 1
    /\ result_used(CurModel, CurModel.nodes[i])
    /\ DOMAIN ctx # DOMAIN stored
    /\ \E a \in DOMAIN CurModel.nodes[i].varin :
          \E n \in get_symbol_names(CurModel, CurModel.nodes[i].varin[a]) :
             n \in DOMAIN ctx

InCompute == pc \in {"node", "call", "evict", "return", "done", "error"}

\* C8: a request for a name that is no declared output fails with
\* UnexpectedOutput before anything is executed.
C8_UnexpectedOutput ==
    /\ (InCompute /\ \E k \in DOMAIN vout : vout[k] \notin VoutNames(CurModel)) =>
          (pc = "error" /\ cerr = "UnexpectedOutput")
    /\ (pc = "error" /\ cerr = "UnexpectedOutput") =>
          (calls = <<>> /\ tape = <<>> /\ ctx = ctx0)

C8_Witness ==
    /\ pc = "error"
    /\ cerr = "UnexpectedOutput"
    /\ ctx0 # EmptyMap
    /\ CurModel.nodes # <<>>

\* C9 as stated: a node that reads a name the Context lacks makes compute
\* fail with ResolveError.
C9_ResolveError ==
    (pc = "error" /\ cerr # "UnexpectedOutput") => cerr = "ResolveError"

(***************************************************************************)
(* Properties of the reverse graph, checked under Spec.                    *)
(***************************************************************************)
RECURSIVE SumOver(_, _)
SumOver(S, f) ==
    IF S = {} THEN 0
    ELSE LET x == CHOOSE y \in S : TRUE IN f[x] + SumOver(S \ {x}, f)

\* the recorded occurrences <<node, argument>> that consume Symbol s
Occurrences(m, tp, s) ==
    {o \in UNION {{tp[k].node} \X DOMAIN m.nodes[tp[k].node].varin : k \in DOMAIN tp} :
        m.nodes[o[1]].varin[o[2]] = s}

\* the partial adjoint the reverse procedure of a recorded node returned for
\* one of its input arguments
PartialOf(o) ==
    LET k == CHOOSE k \in DOMAIN calls : dmodel.nodes[calls[k].node].src = o[1]
    IN  calls[k].out["_" \o o[2]]

IsDeclaredOutput(m, s) == \E k \in DOMAIN m.vout : m.vout[k] = s

IsDeclaredInput(m, s) == \E k \in DOMAIN m.vin : m.vin[k] = s

\* the Symbols whose adjoint the reverse graph computes: the declared inputs
\* and the Symbols with a recorded consumer
Differentiated(m, tp) ==
    {s \in DOMAIN m.syms :
        /\ ~IsLiteral(m.syms[s])
        /\ ~IsDeclaredOutput(m, s)
        /\ IsDeclaredInput(m, s) \/ Occurrences(m, tp, s) # {}}

ReverseDone == target = "vjp" /\ pc = "done"

\* every node construction of the graph succeeded, and no two of its Symbols
\* share a name
WellBuilt ==
    /\ failed = 0
    /\ \A x, y \in DOMAIN model.syms :
          (x # y /\ ~IsLiteral(model.syms[x]) /\ ~IsLiteral(model.syms[y]))
             => model.syms[x].name # model.syms[y].name

\* C1: for a graph built without a failed call and without a reused name, vjp
\* builds a reverse graph from the tape of every finished compute, and when
\* that graph has run, the value bound last to the adjoint name of a Symbol
\* is the sum of the partial adjoints of its recorded consumers (0 when it
\* has none).
C1_AccumulationLaw ==
    WellBuilt =>
       /\ target = "vjp" => pc # "failed"
       /\ ReverseDone =>
             \A s \in Differentiated(model, otape) :
                /\ vjp_name(model.syms[s]) \in DOMAIN stored
                /\ stored[vjp_name(model.syms[s])] =
                      SumOver(Occurrences(model, otape, s),
                              [o \in Occurrences(model, otape, s) |-> PartialOf(o)])

\* the names of a list of Symbols of graph m
NamesOf(m, idx) == [k \in DOMAIN idx |-> m.syms[idx[k]].name]

AdjointNames(m, idx) == [k \in DOMAIN idx |-> vjp_name(m.syms[idx[k]])]

NoRepeat(s) == \A j, k \in DOMAIN s : j # k => s[j] # s[k]

\* vjp has returned a graph
ReverseBuilt == target = "vjp" /\ derr = "none"

\* C15: the graph vjp returns declares as inputs exactly the adjoint names of
\* the original graph's declared outputs and as outputs exactly the adjoint
\* names of its declared inputs, each once.
C15_ReverseSignature ==
    ReverseBuilt =>
       /\ NamesOf(dmodel, dmodel.vin) = AdjointNames(model, model.vout)
       /\ NamesOf(dmodel, dmodel.vout) = AdjointNames(model, model.vin)
       /\ NoRepeat(NamesOf(dmodel, dmodel.vin))
       /\ NoRepeat(NamesOf(dmodel, dmodel.vout))

\* a reverse graph of a graph with two declared inputs and two outputs
C15_Witness ==
    /\ ReverseBuilt
    /\ pc = "ready"
    /\ Len(model.vin) = 2
    /\ Len(model.vout) = 2

\* the declared inputs of the original graph no recorded node consumes
DeadEnds == {k \in DOMAIN model.vin : Occurrences(model, otape, model.vin[k]) = {}}

\* C16 as stated: for every declared input that accumulates no adjoint in
\* the reverse walk, the reverse graph declares its adjoint name as an
\* output, and computing that output succeeds and yields zero.
C16_DeadEndZero ==
    /\ ReverseBuilt =>
          \A k \in DeadEnds : vjp_name(model.syms[model.vin[k]]) \in VoutNames(dmodel)
    /\ (ReverseBuilt /\ InCompute) =>
          /\ pc # "error"
          /\ pc = "done" => \A k \in DeadEnds : result[k] = 0
(***************************************************************************)
(* Properties of the forward graph, checked under Spec.                    *)
(***************************************************************************)
\* jvp has returned a graph
ForwardBuilt == target = "jvp" /\ derr = "none"

\* the Symbols of the forward graph that exist before its k-th node: the
\* declared inputs and the outputs of the nodes before it
DefinedBefore(k) ==
    Range(dmodel.vin)
       \cup UNION {Range(dmodel.nodes[j].varout) : j \in 1..(k - 1)}

\* the k-th node of the forward graph is the tangent node of the k-th record
TangentOfRecord(k) ==
    LET p == model.nodes[otape[k].node]
        t == dmodel.nodes[k]
    IN  /\ t.src = otape[k].node
        /\ t.op = p.op
        /\ t.func = "jvp"
        /\ \A a \in DOMAIN p.varin :
              LET v == dmodel.syms[t.varin[a \o "_"]]
              IN  IF IsLiteral(model.syms[p.varin[a]])
                  THEN v.kind = "ZeroLiteral"
                  ELSE /\ v.name = jvp_name(model.syms[p.varin[a]])
                       /\ t.varin[a \o "_"] \in DefinedBefore(k)
        /\ \A a \in DOMAIN p.varout :
              /\ dmodel.syms[t.varout[a \o "_"]].name = jvp_name(model.syms[p.varout[a]])
              /\ t.varout[a \o "_"] \notin DefinedBefore(k)

\* C17: the graph jvp returns holds one tangent node per tape record, in tape
\* order; each reads, for a non-literal input of the original node, a tangent
\* Symbol defined before it and, for a Literal input, the additive identity;
\* and the tangent of each output Symbol is defined exactly once.
C17_ForwardGraph ==
    ForwardBuilt =>
       /\ Len(dmodel.nodes) >= Len(otape)
       /\ \A k \in DOMAIN otape : TangentOfRecord(k)
       /\ \A k \in DOMAIN dmodel.nodes : k > Len(otape) => dmodel.nodes[k].src = 0

\* a forward graph with a Literal input and a tangent read from an earlier
\* tangent node
C17_Witness ==
    /\ ForwardBuilt
    /\ pc = "ready"
    /\ \E k \in DOMAIN otape : \E a \in DOMAIN dmodel.nodes[k].varin :
          dmodel.syms[dmodel.nodes[k].varin[a]].kind = "ZeroLiteral"
    /\ \E k \in DOMAIN otape : \E a \in DOMAIN dmodel.nodes[k].varin :
          /\ dmodel.syms[dmodel.nodes[k].varin[a]].kind = "Symbol"
          /\ dmodel.nodes[k].varin[a] \notin Range(dmodel.vin)
(***************************************************************************)
(* Repeated transforms, checked under Spec.                                *)
(***************************************************************************)
Kinds(m) == [k \in DOMAIN m.nodes |-> <<m.nodes[k].op, m.nodes[k].func>>]

Bindings(m) ==
    [k \in DOMAIN m.nodes |-> <<m.nodes[k].varin, m.nodes[k].varout, m.nodes[k].kwargs>>]

\* C18 as stated: the same transform applied twice to the same tape succeeds
\* both times and yields two graphs with the same declared inputs, declared
\* outputs, node kinds and argument bindings.
C18_Reinvokable ==
    dprev.set =>
       /\ dprev.err = "none"
       /\ derr = "none"
       /\ NamesOf(dmodel, dmodel.vin) = NamesOf(dprev.m, dprev.m.vin)
       /\ NamesOf(dmodel, dmodel.vout) = NamesOf(dprev.m, dprev.m.vout)
       /\ Kinds(dmodel) = Kinds(dprev.m)
       /\ Bindings(dmodel) = Bindings(dprev.m)

(***************************************************************************)
(* The scalar test, checked under SpecScalarTest.                          *)
(***************************************************************************)
\* 0^2 + 1^2 + ... + (n-1)^2
SumOfSquares(n) == ((n - 1) * n * (2 * n - 1)) \div 6

Finished(func) == target = func /\ pc = "done"

\* the graph is that of Test_mul
OnMul == model.nodes # <<>> /\ model.nodes[1].op = "mul"

\* C20 as stated: on the graph y = mul(x, 1.0), c = to_scalar(y) at
\* x = [0..n-1], compute returns the sum of squares (285 for n = 10), the
\* reverse graph at _c = 1 returns 2*x, and the forward graph at the tangent
\* e_i returns the scalar 2*x[i].
C20_ScalarTest ==
    /\ (OnMul /\ Finished("opr")) => result = <<SumOfSquares(Len(ctx0["x"]))>>
    /\ (OnMul /\ Finished("vjp")) => result = [k \in 1..TapeLen |-> 2 * (k - 1)]
    /\ (OnMul /\ Finished("jvp")) =>
          \E idx \in 1..TapeLen :
              /\ ctx0["x_"] = Eye(TapeLen, idx)
              /\ result = <<2 * (idx - 1)>>
\* model(x) and to_scalar of it, by the procedures themselves
ModelValue(kind, x) ==
    ImplArray(kind, "opr",
              [a \in DOMAIN ModelKwargs(kind, Bare(x)) |-> ModelKwargs(kind, Bare(x))[a].v])["y"]

ScalarValue(kind, x) == ImplArray("to_scalar", "opr", "x" :> ModelValue(kind, x))["y"]

\* the centered finite difference of setup, (yr - yl) / epsilon along d.  The
\* graphs modelled are quadratic in x, for which the centered difference does
\* not depend on epsilon; it is taken with the step d (epsilon = 2) so that
\* the operands stay integers.
FiniteDifference(kind, x, d) ==
    (ScalarValue(kind, Plus(x, d))[1]
        - ScalarValue(kind, Plus(x, Times(<<-1>>, d)))[1]) \div 2

\* numpy.sum(a * b)
Dot(a, b) == Sum(Times(a, b))

\* C22 as stated: the reverse graph's _x at _y = 1 dotted with a direction d
\* and the forward graph's y_ at the tangent x_ = d are both equal to the
\* centered finite difference of the graph along d.
C22_ReverseForwardAgree ==
    /\ Finished("vjp") =>
          \A idx \in 1..TapeLen :
              Dot(result, Eye(TapeLen, idx))
                 = <<FiniteDifference(model.nodes[1].op, TapeX, Eye(TapeLen, idx))>>
    /\ Finished("jvp") =>
          result = <<FiniteDifference(model.nodes[1].op, TapeX, ctx0["x_"])>>

(***************************************************************************)
(* The runs of the optimizers: minimize is started on a problem, and each  *)
(* pass of its loop is one step.                                           *)
(***************************************************************************)
Problems == {[a |-> One], [a |-> <<1, 2>>]}

Starts == {<<k, 1>> : k \in 0..MaxStart}

Config(tol, ymin, gtol, maxsteps, csteps, minsteps, m, gamma) ==
    [tol |-> tol, atol |-> Zero, ymin |-> ymin, gtol |-> gtol, maxsteps |-> maxsteps,
     csteps |-> csteps, minsteps |-> minsteps, m |-> m, gamma |-> gamma]

LBFGSConfigs ==
    {Config(tol, <<>>, gtol, maxsteps, csteps, minsteps, m, <<1, 1000>>) :
        tol \in {Zero, DefaultTol}, gtol \in {DefaultGtol, <<4, 1>>},
        maxsteps \in {0, DefaultMaxsteps}, csteps \in {1, DefaultCsteps},
        minsteps \in {2, DefaultMinsteps}, m \in {1, DefaultM}}

GradientDescentConfigs ==
    {Config(DefaultTol, ymin, gtol, maxsteps, DefaultCsteps, DefaultMinsteps, DefaultM, gamma) :
        ymin \in {<<>>, <<One>>}, gtol \in {DefaultGtol, One},
        maxsteps \in 0..MaxSteps, gamma \in {<<1, 4>>, <<1, 2>>}}

UnchangedEngine ==
    UNCHANGED <<model, last, failed, target, pc, i, ctx, ctx0, tape, r, vout, single_return, cerr,
                result, calls, stored, otape, dmodel, derr, opdecl, declared,
                first, dprev, seg>>

\* minimize up to its loop: the State is constructed
Minimize(kind, p, x0, config) ==
    /\ opt.pc = "idle"
    /\ opt' = [pc |-> "loop", kind |-> kind, problem |-> p, config |-> config,
               state |-> State(p, x0), converged_iters |-> 0, err |-> "none",
               passed |-> <<>>]
    /\ UnchangedEngine

\* the tests of the loop of GradientDescent.minimize
Descending(o) ==
    /\ o.state.it < o.config.maxsteps
    /\ ~FLess(gnorm(o.state), o.config.gtol)
    /\ ~(o.config.ymin # <<>> /\ FLess(o.state.y, o.config.ymin[1]))

\* the body of the loop of GradientDescent.minimize, x1 being the next point
step(o, x1) ==
    [o.state EXCEPT
        !.fev = @ + 1,
        !.g = gradient(o.problem, o.state.x),
        !.gev = @ + 1,
        !.dy = <<FAbs(FSub(objective(o.problem, x1), o.state.y))>>,
        !.x = x1,
        !.y = objective(o.problem, x1),
        !.it = @ + 1]

GradientDescentIterate ==
    /\ opt.pc = "loop"
    /\ opt.kind = "GradientDescent"
    /\ Descending(opt)
    /\ \E x1 \in {default_addmul(opt.state.x, opt.state.g, FNeg(opt.config.gamma))} :
           opt' = [opt EXCEPT !.state = step(opt, x1)]
    /\ UnchangedEngine

GradientDescentReturn ==
    /\ opt.pc = "loop"
    /\ opt.kind = "GradientDescent"
    /\ ~Descending(opt)
    /\ opt' = [opt EXCEPT !.pc = "returned"]
    /\ UnchangedEngine

\* one pass of the loop of LBFGS.minimize
LBFGSIterate ==
    /\ opt.pc = "loop"
    /\ opt.kind = "LBFGS"
    /\ opt.state.it < MaxIterations
    /\ \E res \in {one(opt)} :
           IF res.err # "none"
           THEN opt' = [opt EXCEPT !.state = res.state, !.pc = "raised", !.err = res.err]
           ELSE \E n \in {after_one(opt, res.state)} :
                    opt' = [opt EXCEPT !.state = n.state,
                                       !.converged_iters = n.converged_iters,
                                       !.pc = n.pc,
                                       !.passed = Append(@, res.passed)]
    /\ UnchangedEngine

NextOptimize ==
    \/ \E p \in Problems, x0 \in Starts, config \in LBFGSConfigs :
           Minimize("LBFGS", p, x0, config)
    \/ \E p \in Problems, x0 \in Starts, config \in GradientDescentConfigs :
           Minimize("GradientDescent", p, x0, config)
    \/ GradientDescentIterate
    \/ GradientDescentReturn
    \/ LBFGSIterate

SpecOptimize == Init /\ [][NextOptimize]_vars

(***************************************************************************)
(* Properties of the optimizers, checked under SpecOptimize.               *)
(***************************************************************************)
Returned(kind) == opt.kind = kind /\ opt.pc = "returned"

\* C23: GradientDescent.minimize always runs for maxsteps iterations: on
\* return state.it equals maxsteps, whatever the gradient norm reached.
C23_RunsMaxsteps ==
    Returned("GradientDescent") => opt.state.it = opt.config.maxsteps

\* C24: as soon as an iteration of LBFGS.minimize leaves gnorm < gtol the loop
\* stops, without a further iteration, and the status returned is the
\* Converged of the gradient tolerance.
C24_GradientTolerance ==
    (opt.kind = "LBFGS" /\ opt.state.it >= 1 /\ FLess(gnorm(opt.state), opt.config.gtol))
        => /\ opt.pc = "returned"
           /\ opt.state.status = Converged("YES: Gradient tolerance achieved")

\* C25: state.it never exceeds maxsteps at any point of minimize, for both
\* optimizers.
C25_MaxstepsBound ==
    opt.pc # "idle" => opt.state.it <= opt.config.maxsteps

\* the iterations that passed the test of converged, latest last
LastPassed(n) == {opt.passed[k] : k \in (Len(opt.passed) - n + 1)..Len(opt.passed)}

\* C26: LBFGS.minimize returns 'Tolerance achieved' only when each of the last
\* csteps iterations passed the single-step test and state.it >= minsteps; an
\* iteration that fails the test resets the count of converged iterations.
C26_ToleranceAchieved ==
    /\ (Returned("LBFGS") /\ opt.state.status = Converged("YES: Tolerance achieved"))
          => /\ opt.state.it >= opt.config.minsteps
             /\ Len(opt.passed) >= opt.config.csteps
             /\ LastPassed(opt.config.csteps) \subseteq {TRUE}
    /\ (opt.kind = "LBFGS" /\ opt.passed # <<>> /\ ~opt.passed[Len(opt.passed)])
          => opt.converged_iters = 0

(***************************************************************************)
(* The fan-out structure of the reverse graph, checked under Spec.         *)
(***************************************************************************)
\* the reverse node made from the record of node p
ReverseNode(p) ==
    CHOOSE n \in DOMAIN dmodel.nodes : dmodel.nodes[n].func = "vjp" /\ dmodel.nodes[n].src = p

\* the Symbol of the reverse graph the reverse node writes for occurrence o
AdjointOf(o) == dmodel.nodes[ReverseNode(o[1])].varout["_" \o o[2]]

\* the occurrences of s whose partial adjoint is written under the canonical
\* adjoint name
Direct(s) ==
    {o \in Occurrences(model, otape, s) :
        dmodel.syms[AdjointOf(o)].name = vjp_name(model.syms[s])}

\* the addition nodes that take in a partial adjoint of s
Additions(s) ==
    {n \in DOMAIN dmodel.nodes :
        /\ dmodel.nodes[n].op = "add"
        /\ dmodel.nodes[n].func = "opr"
        /\ \E o \in Occurrences(model, otape, s) : dmodel.nodes[n].varin["x2"] = AdjointOf(o)}

\* addition node n sums the running canonical adjoint of s and a private
\* partial adjoint into the canonical adjoint
Accumulates(n, s) ==
    /\ dmodel.syms[dmodel.nodes[n].varin["x1"]].name = vjp_name(model.syms[s])
    /\ dmodel.syms[dmodel.nodes[n].varin["x2"]].name # vjp_name(model.syms[s])
    /\ dmodel.syms[dmodel.nodes[n].varout["y"]].name = vjp_name(model.syms[s])

FanOut(s, k) ==
    /\ Cardinality(Direct(s)) = 1
    /\ Cardinality(Additions(s)) = k - 1
    /\ \A n \in Additions(s) : Accumulates(n, s)

\* C27: for every non-literal Symbol with k >= 1 recorded consuming
\* occurrences the reverse graph holds exactly one reverse-node output written
\* to the canonical adjoint name and exactly k - 1 addition nodes for that
\* Symbol, each summing the running canonical adjoint with one private partial.
C27_FanOut ==
    ReverseBuilt =>
       \A s \in DOMAIN model.syms :
          (~IsLiteral(model.syms[s]) /\ Occurrences(model, otape, s) # {})
             => FanOut(s, Cardinality(Occurrences(model, otape, s)))

\* C28: for every tape of a successful compute, vjp completes without a
\* missing-name failure, and every declared output of the graph it returns
\* can be computed from values for all its declared inputs.
C28_ReverseSafety ==
    target = "vjp" =>
       /\ derr = "none"
       /\ pc \notin {"failed", "error"}
       /\ cerr = "none"

(***************************************************************************)
(* What a node resolves during compute, checked under Spec.                *)
(***************************************************************************)
\* the <<node, argument>> that produces Symbol s (none for a declared input)
Producer(m, s) ==
    {o \in UNION {{k} \X DOMAIN m.nodes[k].varout : k \in DOMAIN m.nodes} :
        m.nodes[o[1]].varout[o[2]] = s}

\* the invocations so far of the node that produces Symbol s
Produced(m, s) == {c \in DOMAIN calls : \E o \in Producer(m, s) : calls[c].node = o[1]}

\* Symbol s has a value in this compute, and it is v: the initial value of a
\* declared input, or the output of its producing node
IsValueOf(m, s, v) ==
    IF Producer(m, s) = {}
    THEN m.syms[s].name \in DOMAIN ctx0 /\ v = ctx0[m.syms[s].name]
    ELSE \E c \in Produced(m, s) : \E o \in Producer(m, s) :
            calls[c].node = o[1] /\ v = calls[c].out[o[2]]

\* C29: during compute every node resolves, for each input Symbol, the value
\* of exactly the Symbol it was bound to at build time, even when another
\* Symbol of the same name was written to the Context in between.
C29_ResolvesBoundSymbol ==
    InCompute =>
       \A k \in DOMAIN tape : \A a \in DOMAIN CurModel.nodes[tape[k].node].varin :
          ~IsLiteral(CurModel.syms[CurModel.nodes[tape[k].node].varin[a]])
             => IsValueOf(CurModel, CurModel.nodes[tape[k].node].varin[a],
                          tape[k].impl_kwargs[a])

(***************************************************************************)
(* Graphs of pow nodes, whose reverse and forward procedures raise.        *)
(***************************************************************************)
\* pow(x=h, n=2), and pow(x=h) without the exponent
PowCalls(m) ==
    {<<"pow", ("x" :> Sym(h)) @@ kw>> : h \in Handles(m), kw \in {EmptyMap, "n" :> Bare(2)}}

NextFailure ==
    \/ DeclareInput
    \/ Building /\ \E c \in PowCalls(model) : NodeCall(c[1], c[2])
    \/ Building /\ \E var \in Args(model) : OutputCall(OutputNames[Len(model.vout) + 1], var)
    \/ Building /\ \E run \in Runs(model) : ComputeGraph(run[1], run[2])
    \/ Execute
    \/ Invoke
    \/ Evict
    \/ Return
    \/ \E func \in {"vjp", "jvp"} : Transform(func)
    \/ pc = "ready" /\ \E init \in Seeds(dmodel) : ComputeDerived(init, Names(AllOutputs(dmodel)))

SpecFailure == Init /\ [][NextFailure]_vars

(***************************************************************************)
(* Properties of a failing procedure, checked under SpecFailure.           *)
(***************************************************************************)
\* the procedure of the node compute is at has raised
ProcedureRaised == pc = "error" /\ cerr = ProcedureFailure

\* C30: a failure raised by a node's procedure propagates and aborts the
\* execution: the failing node's outputs are not stored in the Context, the
\* tape ends with the record of the failing node, no node declared after it
\* is invoked, and nothing runs afterwards.
C30_FailurePropagates ==
    [][/\ (pc = "call" /\ Raises(CurModel.nodes[i].op, CurModel.nodes[i].func))
            => /\ pc' = "error"
               /\ cerr' = ProcedureFailure
               /\ ctx' = ctx
               /\ calls' = calls
               /\ tape' = tape
               /\ tape[Len(tape)].node = i
               /\ \A k \in DOMAIN tape : tape[k].node <= i
               /\ \A c \in DOMAIN calls : calls[c].node < i
       /\ ProcedureRaised => UNCHANGED vars]_vars

\* a procedure has raised with nodes still to come and a node behind it
C30_Witness ==
    /\ ProcedureRaised
    /\ i < Len(CurModel.nodes)
    /\ Len(tape) >= 2
    /\ calls # <<>>

(***************************************************************************)
(* Failed node constructions (primitive.py lines 58-108).                  *)
(***************************************************************************)
ConstructionFailures == {"OverwritePrecaution", "MissingArgument", "InferError"}

\* the step is a builder call that raised one of the three exceptions
FailedConstruction ==
    /\ Building
    /\ Building'
    /\ failed' # failed
    /\ last'.err \in ConstructionFailures

\* the reference counts of the Symbols of m, by index
References(m) == [k \in DOMAIN m.syms |-> m.syms[k].refs]

\* C31: a node construction that fails with OverwritePrecaution,
\* MissingArgument or InferError leaves the node list, the declared inputs
\* and outputs and the reference count of every Symbol as they were.
C31_FailedConstructionFrame ==
    [][FailedConstruction =>
          /\ model'.nodes = model.nodes
          /\ model'.vin = model.vin
          /\ model'.vout = model.vout
          /\ \A k \in DOMAIN model.syms :
                References(model')[k] = References(model)[k]]_vars

(***************************************************************************)
(* Reference ordinals (primitive.py lines 77-85).                          *)
(***************************************************************************)
\* the ordinal a consuming occurrence recorded (varin_info)
Ordinal(m, o) == m.nodes[o[1]].varin_info[o[2]]

\* the place of an input argument in the loop over kls.ain
ArgPlace(m, o) ==
    CHOOSE k \in DOMAIN InputArgs(m.nodes[o[1]]) : InputArgs(m.nodes[o[1]])[k] = o[2]

\* o1 was bound before o2
BoundBefore(m, o1, o2) ==
    \/ o1[1] < o2[1]
    \/ o1[1] = o2[1] /\ ArgPlace(m, o1) < ArgPlace(m, o2)

\* C32: for every Symbol the ordinals recorded by the (node, input argument)
\* pairs that consume it are exactly 1..k without repetition, in construction
\* order, k being the Symbol's reference count; exactly one consuming
\* occurrence has the ordinal k.
C32_ReferenceOrdinals ==
    \A s \in DOMAIN model.syms :
        LET occ == Consumptions(model, s)
            k   == model.syms[s].refs
        IN  /\ Cardinality(occ) = k
            /\ {Ordinal(model, o) : o \in occ} = 1..k
            /\ \A o1, o2 \in occ :
                  BoundBefore(model, o1, o2) => Ordinal(model, o1) < Ordinal(model, o2)
            /\ k >= 1 => Cardinality({o \in occ : Ordinal(model, o) = k}) = 1

\* the same, as long as no builder call has raised
OrdinalsWithoutFailure == failed = 0 => C32_ReferenceOrdinals

(***************************************************************************)
(* Declared outputs and terminal nodes (model.py lines 28-36).             *)
(***************************************************************************)
TerminalNodes(m) == {n \in DOMAIN m.nodes : IsTerminal(m.nodes[n])}

\* the k-th declared output is written by the k-th terminal node, and by no
\* other node; the names of the declared outputs are pairwise distinct
OutputsAreTerminals(m) ==
    /\ Cardinality(TerminalNodes(m)) = Len(m.vout)
    /\ \A k \in DOMAIN m.vout :
          \E n \in TerminalNodes(m) :
              /\ m.nodes[n].varout["y"] = m.vout[k]
              /\ Cardinality({j \in TerminalNodes(m) : j < n}) = k - 1
    /\ \A j, k \in DOMAIN m.vout :
          m.syms[m.vout[j]].name = m.syms[m.vout[k]].name => j = k

\* the step is a successful m.output(name=s)
OutputSucceeds ==
    /\ Building
    /\ last'.call = "output"
    /\ last'.err = "none"
    /\ model' # model

\* the node reads s: the Symbol itself, the output of the node s, or a
\* Literal of the bare value
Reads(m, node, s) ==
    IF s.bare
    THEN m.syms[node.varin["x"]].kind = "Literal" /\ m.syms[node.varin["x"]].value = ValueOf(s)
    ELSE IF IsNode(s) THEN node.varin["x"] = Unpacked(m, s.v)
    ELSE node.varin["x"] = s.v

\* what a successful output call adds to the graph
AppendsTerminal ==
    LET node == model'.nodes[Len(model'.nodes)]
        var  == node.varout["y"]
    IN  /\ Len(model'.nodes) = Len(model.nodes) + 1
        /\ SubSeq(model'.nodes, 1, Len(model.nodes)) = model.nodes
        /\ IsTerminal(node)
        /\ Reads(model', node, last'.kw["x"])
        /\ var \notin DOMAIN model.syms
        /\ model'.syms[var] = Symbol(last'.op)
        /\ model'.vout = Append(model.vout, var)
        /\ model'.vin = model.vin

\* C33: each successful output(name=s) call appends exactly one terminal
\* node that reads s and writes a freshly defined Symbol named name, and
\* records that Symbol as a declared output; in every reachable graph the
\* declared outputs correspond one to one to the terminal nodes and their
\* names are pairwise distinct.
C33_OutputTerminal ==
    /\ [][OutputSucceeds => AppendsTerminal]_vars
    /\ [](OutputsAreTerminals(model) /\ OutputsAreTerminals(dmodel))

\* two outputs declared, one of a bare value, next to an ordinary node
C33_Witness ==
    /\ Len(model.vout) = 2
    /\ last.call = "output" /\ last.err = "none"
    /\ \E n \in TerminalNodes(model) : IsLiteral(model.syms[model.nodes[n].varin["x"]])

(***************************************************************************)
(* Literals (primitive.py lines 6-15, symbol.py lines 52-78).              *)
(***************************************************************************)
LiteralInputs(m, node) == {a \in DOMAIN node.varin : IsLiteral(m.syms[node.varin[a]])}

\* the node the last builder call made binds a Literal of the value for
\* every bare value and the Symbol itself for every Symbol
WrapsBareValues ==
    (last.call \in {"node", "output"} /\ last.err = "none") =>
        LET node == model.nodes[Len(model.nodes)]
        IN  \A a \in DOMAIN node.varin :
               IF last.kw[a].bare
               THEN /\ model.syms[node.varin[a]].kind = "Literal"
                    /\ model.syms[node.varin[a]].value = ValueOf(last.kw[a])
               ELSE IF IsNode(last.kw[a]) THEN node.varin[a] = Unpacked(model, last.kw[a].v)
               ELSE node.varin[a] = last.kw[a].v

\* every record of tape tp of graph m holds, for a Literal input, the value
\* the Literal is bound to; the Context has no entry for a Literal
ResolvesToValue(m, tp) ==
    \A k \in DOMAIN tp :
        \A a \in LiteralInputs(m, m.nodes[tp[k].node]) :
            /\ tp[k].impl_kwargs[a] = m.syms[m.nodes[tp[k].node].varin[a]].value
            /\ m.syms[m.nodes[tp[k].node].varin[a]].name \notin (DOMAIN ctx0) \cup (DOMAIN ctx)

\* the names vjp would give the adjoint of a Literal
LiteralAdjointNames ==
    {vjp_name(Literal(0))}
       \cup {vjp_name(Literal(0)) \o "#" \o ToString(k) : k \in 1..(2 * MaxNodes)}

\* the reverse graph: the adjoint of a Literal input is a Symbol the node
\* generated for itself, which no node consumes
ExcludedFromReverse ==
    target = "vjp" =>
       /\ \A n \in DOMAIN dmodel.nodes :
             dmodel.nodes[n].func = "vjp" =>
                \A a \in LiteralInputs(model, model.nodes[dmodel.nodes[n].src]) :
                   LET d == dmodel.nodes[n]
                   IN  /\ ("_" \o a) \in DOMAIN d.varout
                       /\ dmodel.syms[d.varout["_" \o a]].name = d.name \o "-_" \o a
                       /\ dmodel.syms[d.varout["_" \o a]].refs = 0
                       /\ \A j \in DOMAIN dmodel.nodes :
                             \A b \in DOMAIN dmodel.nodes[j].varin :
                                dmodel.nodes[j].varin[b] # d.varout["_" \o a]
       /\ \A s \in DOMAIN dmodel.syms : dmodel.syms[s].name \notin LiteralAdjointNames

\* the forward graph: the tangent of a Literal input is a ZeroLiteral, which
\* resolves to 0
FeedsZero ==
    target = "jvp" =>
       /\ \A n \in DOMAIN dmodel.nodes :
             dmodel.nodes[n].func = "jvp" =>
                \A a \in LiteralInputs(model, model.nodes[dmodel.nodes[n].src]) :
                   /\ dmodel.syms[dmodel.nodes[n].varin[a \o "_"]].kind = "ZeroLiteral"
                   /\ resolve(dmodel, dmodel.nodes[n].varin[a \o "_"], ctx) = 0
       /\ \A k \in DOMAIN tape :
             dmodel.nodes[tape[k].node].func = "jvp" =>
                \A a \in LiteralInputs(model, model.nodes[dmodel.nodes[tape[k].node].src]) :
                   tape[k].impl_kwargs[a \o "_"] = 0

\* C34: a bare value supplied for an input argument is wrapped as a Literal
\* that resolves to that value without reading the Context; the reverse
\* graph defines no canonical or partial adjoint Symbol and no addition node
\* for a Literal input, and the forward graph feeds 0 as its tangent.
C34_Literals ==
    /\ WrapsBareValues
    /\ target # "none" => ResolvesToValue(CurModel, tape)
    /\ target \in {"vjp", "jvp"} => ResolvesToValue(model, otape)
    /\ ExcludedFromReverse
    /\ FeedsZero

\* the forward graph of a graph with a Literal input has been computed
C34_Witness ==
    /\ target = "jvp"
    /\ pc = "done"
    /\ \E k \in DOMAIN tape :
          /\ dmodel.nodes[tape[k].node].func = "jvp"
          /\ model.nodes[dmodel.nodes[tape[k].node].src].op = "mul"
          /\ LiteralInputs(model, model.nodes[dmodel.nodes[tape[k].node].src]) # {}

(***************************************************************************)
(* The transforms and the objects they are given (autodiff.py).            *)
(***************************************************************************)
\* the Symbols graph m binds: by its nodes, its declared inputs and outputs
\* and its table of names
Bound(m) ==
    UNION {Range(m.nodes[n].varin) \cup Range(m.nodes[n].varout) : n \in DOMAIN m.nodes}
       \cup Range(m.vin) \cup Range(m.vout) \cup {m.symtab[x] : x \in DOMAIN m.symtab}

\* the Symbol objects of the original graph, as the transform left them
Originals == SubSeq(dmodel.syms, 1, Len(model.syms))

\* the step is a transform of the tape, or the same transform once more
Transforms ==
    \/ target = "opr" /\ target' \in {"vjp", "jvp"}
    \/ pc \in {"ready", "failed"} /\ pc' = "again"

\* C35: vjp and jvp leave the tape's records, the original graph's node list
\* and declared inputs and outputs, and the references of every Symbol of
\* the original graph as they were; every node and Symbol the transform
\* creates belongs to the new graph.
C35_TransformFrame ==
    /\ [][Transforms =>
             /\ model' = model
             /\ otape' = (IF target = "opr" THEN tape ELSE otape)
             /\ tape' = (IF target = "opr" THEN <<>> ELSE tape)]_vars
    /\ [](target \in {"vjp", "jvp"} =>
             /\ Originals = model.syms
             /\ \A s \in Bound(dmodel) : s > Len(model.syms)
             /\ \A s \in DOMAIN dmodel.syms :
                    (s > Len(model.syms) /\ dmodel.syms[s].refs > 0) =>
                        \E n \in DOMAIN dmodel.nodes : s \in Range(dmodel.nodes[n].varin))

\* a reverse graph with an addition node, built twice from one tape
C35_Witness ==
    /\ target = "vjp"
    /\ pc = "again"
    /\ derr = "none"
    /\ \E s \in DOMAIN model.syms : model.syms[s].refs >= 2
    /\ \E n \in DOMAIN dmodel.nodes : dmodel.nodes[n].op = "add" /\ dmodel.nodes[n].func = "opr"

(***************************************************************************)
(* Context.compute twice on one Context object (core/context.py lines      *)
(* 37-79): the graphs of Spec and the graphs without a node or without a   *)
(* declared output, computed by a Context of initial values, and computed  *)
(* once more by the same Context as the first compute left it.             *)
(***************************************************************************)
\* Context(**init).compute(model, vout=req, return_tape=True)
ComputeOnContext(init, req) ==
    /\ Building
    /\ target' = "opr"
    /\ last' = NoCall
    /\ BeginCompute(model, init, req)
    /\ UNCHANGED <<opt, seg, first, dprev, opdecl, declared, model, failed, otape, dmodel, derr>>

\* the same Context object computes the same graph again, nothing supplied
ComputeSameContext ==
    /\ target = "opr"
    /\ pc = "done"
    /\ ~first.set
    /\ first' = [set |-> TRUE, result |-> result, tape |-> tape]
    /\ BeginCompute(model, ctx, Given)
    /\ UNCHANGED <<opt, seg, dprev, opdecl, declared, model, last, failed, target, otape,
                   dmodel, derr>>

NextContext ==
    \/ DeclareInput
    \/ Building /\ \E c \in GraphCalls(model) : NodeCall(c[1], c[2])
    \/ Building /\ \E var \in Args(model) : OutputCall(OutputNames[Len(model.vout) + 1], var)
    \/ \E init \in {FullInit(model)} : ComputeOnContext(init, Names(AllOutputs(model)))
    \/ Execute
    \/ Invoke
    \/ Evict
    \/ Return
    \/ ComputeSameContext

SpecContext == Init /\ [][NextContext]_vars

\* compute has returned
Returned1 == target = "opr" /\ pc = "done"

\* the names the executed nodes before node n store in the Context
StoredBefore(m, n) ==
    UNION {{m.syms[m.nodes[j].varout[a]].name : a \in DOMAIN m.nodes[j].varout} :
              j \in {j \in 1..(n - 1) : result_used(m, m.nodes[j])}}

\* the executed nodes that read from the Context a name that no executed
\* node before them stores: they read what the caller supplied
Readers(m) ==
    {n \in DOMAIN m.nodes :
        /\ result_used(m, m.nodes[n])
        /\ \E a \in DOMAIN m.nodes[n].varin :
              /\ ~IsLiteral(m.syms[m.nodes[n].varin[a]])
              /\ m.syms[m.nodes[n].varin[a]].name \notin StoredBefore(m, n)}

\* C36 as stated: when compute returns every entry has been evicted from the
\* Context, and a second compute on the same Context fails to resolve the
\* inputs.
C36_ConsumesContext ==
    /\ Returned1 => ctx = EmptyMap
    /\ first.set => pc # "done"

\* C36, amended: on a graph with at least one node compute leaves the
\* Context empty, on a graph without nodes it leaves it as it was; the second
\* compute on the same Context starts from what the first left, fails at the
\* first executed node that reads a name no earlier node has stored, and
\* returns when there is no such node.
C36_ConsumesContextOfNodes ==
    /\ (Returned1 /\ model.nodes # <<>>) => ctx = EmptyMap
    /\ (Returned1 /\ model.nodes = <<>>) => ctx = ctx0
    /\ first.set =>
          /\ model.nodes # <<>> => ctx0 = EmptyMap
          /\ pc = "error" =>
                /\ cerr = ResolveFailure
                /\ Readers(model) # {}
                /\ \A n \in Readers(model) : i <= n
                /\ i \in Readers(model)
          /\ pc = "done" => Readers(model) = {}
          /\ Readers(model) # {} => \A k \in DOMAIN tape : tape[k].node \notin Readers(model)

\* the second compute on a consumed Context has failed on an input that the
\* first compute was given
C36_Witness ==
    /\ first.set
    /\ pc = "error"
    /\ Len(first.tape) >= 2
    /\ first.result # <<>>
    /\ i \in Readers(model)
    /\ \E a \in DOMAIN model.nodes[i].varin :
          \E k \in DOMAIN model.vin : model.nodes[i].varin[a] = model.vin[k]

(***************************************************************************)
(* Optimizer of abopt2.py, on the objective a * x ** 2 of one dimension    *)
(* with the identity preconditioner: Px is x and Pg is g.  What            *)
(* single_iteration returns is an input: no proposal (None), or a proposal *)
(* of a point with the direction z = 1.  A value that may be None is <<>>  *)
(* or <<v>>.                                                               *)
(***************************************************************************)
ContinueIteration(msg) == [kls |-> "ContinueIteration", msg |-> msg]
ConvergedIteration(msg) == [kls |-> "ConvergedIteration", msg |-> msg]
FailedIteration(msg) == [kls |-> "FailedIteration", msg |-> msg]

\* Problem.__init__ with its default tolerances
Problem(a) ==
    [a |-> a, atol |-> Zero, rtol |-> <<1, 10000000>>, xtol |-> <<1, 10000000>>,
     gtol |-> <<1, 100000000>>]

\* State.__init__; the attributes move sets later are <<>> until then
NewState ==
    [nit |-> 0, fev |-> 0, gev |-> 0, dy |-> <<>>, dxnorm |-> <<>>, assessment |-> None,
     conviter |-> 0, converged |-> FALSE, message |-> "", y_ |-> <<>>, z |-> <<>>,
     x |-> <<>>, y |-> <<>>, g |-> <<>>, theta |-> <<>>,
     xnorm |-> <<>>, gnorm |-> <<>>, Pgnorm |-> <<>>]

\* Proposal.__init__(problem, Px=x, z=z, init=init)
Proposal(x, z, init) ==
    [none |-> FALSE, x |-> x, z |-> z, init |-> init, message |-> "normal",
     y |-> <<>>, g |-> <<>>, dy |-> <<>>, dxnorm |-> <<>>, theta |-> <<>>,
     xnorm |-> <<>>, gnorm |-> <<>>, Pgnorm |-> <<>>]

\* single_iteration returned None
NoProposal == [none |-> TRUE]

\* Proposal.complete(state): the pair of the completed proposal and the state
\* with its counters of evaluations raised
complete(p, prop, st) ==
    LET y      == objective(p, prop.x)
        g      == gradient(p, prop.x)
        Pgnorm == Norm(g)
        znorm  == Norm(prop.z[1])
        theta  == IF Pgnorm = Zero THEN One
                  ELSE FDiv(default_dot(prop.z[1], g), FMul(znorm, Pgnorm))
    IN  [prop  |-> [prop EXCEPT !.y = <<y>>, !.g = <<g>>,
                                !.xnorm = <<Norm(prop.x)>>,
                                !.gnorm = <<Norm(g)>>, !.Pgnorm = <<Pgnorm>>,
                                !.dy = IF prop.init THEN <<>> ELSE <<FSub(y, st.y[1])>>,
                                !.dxnorm = IF prop.init THEN <<>>
                                           ELSE <<Norm(default_addmul(prop.x, st.x[1], FNeg(One)))>>,
                                !.theta = IF prop.init THEN <<>> ELSE <<theta>>],
         state |-> [st EXCEPT !.fev = @ + 1, !.gev = @ + 1]]

\* Problem.check_convergence
check_convergence(p, y0, y1) ==
    IF FLess(y0, y1) THEN FALSE
    ELSE FLess(FAbs(FSub(y0, y1)),
               FAdd(FMul(p.rtol, FMax(FAbs(y0), FAbs(y1))), p.atol))

\* Optimizer.assess: the assessment, the completed proposal and the state
assess(p, st, prop) ==
    IF prop.none
    THEN [assessment |-> FailedIteration("no proposal is made"), prop |-> prop, state |-> st]
    ELSE LET c == complete(p, prop, st)
         IN  [assessment |->
                 IF ~FLess(p.gtol, c.prop.gnorm[1])
                 THEN ConvergedIteration("Gradient is sufficiently small")
                 ELSE IF ~FLess(p.xtol, c.prop.dxnorm[1])
                 THEN ConvergedIteration("Solution stopped moving")
                 ELSE IF check_convergence(p, st.y[1], c.prop.y[1])
                 THEN ConvergedIteration("Objective stopped improving")
                 ELSE ContinueIteration("continue iteration"),
              prop |-> c.prop, state |-> c.state]

\* Optimizer.move
move(st, prop) ==
    [st EXCEPT !.message = prop.message,
               !.y_ = IF Len(@) >= 2 THEN Append(Tail(@), prop.y[1]) ELSE Append(@, prop.y[1]),
               !.y = prop.y, !.dy = prop.dy, !.x = <<prop.x>>, !.g = prop.g,
               !.z = prop.z, !.theta = prop.theta,
               !.xnorm = prop.xnorm, !.gnorm = prop.gnorm, !.Pgnorm = prop.Pgnorm,
               !.dxnorm = prop.dxnorm]

\* a variant of terminated that tests maxiter before the assessment
terminated_maxiter_first(config, st) ==
    \/ st.nit > config.maxiter
    \/ st.assessment.kls = "FailedIteration"
    \/ st.assessment.kls = "ConvergedIteration"
          /\ (st.Pgnorm[1] = Zero \/ st.conviter >= config.conviter)

\* Optimizer.terminated
terminated(config, st) ==
    IF st.assessment.kls = "ConvergedIteration"
    THEN st.Pgnorm[1] = Zero \/ st.conviter >= config.conviter
    ELSE IF st.assessment.kls = "FailedIteration" THEN TRUE
    ELSE st.nit > config.maxiter

\* what the body of restart's loop does to the state once the assessment a
\* of proposal prop is made
assessed(st, a, prop) ==
    LET s1 == [st EXCEPT !.assessment = a]
        s2 == IF a.kls \in {"ContinueIteration", "ConvergedIteration"}
              THEN [move(s1, prop) EXCEPT !.nit = @ + 1] ELSE s1
        s3 == IF a.kls = "ConvergedIteration"
              THEN [s2 EXCEPT !.conviter = @ + 1, !.converged = TRUE] ELSE s2
    IN  IF a.kls = "ContinueIteration"
        THEN [s3 EXCEPT !.conviter = 0, !.converged = FALSE] ELSE s3

\* a variant of the loop body that moves the state to the proposal first and
\* assesses the proposal against the moved state
iteration_move_first(p, st, prop) ==
    IF prop.none THEN assessed(st, assess(p, st, prop).assessment, prop)
    ELSE LET c == complete(p, prop, st)
             a == assess(p, move(c.state, c.prop), prop)
         IN  assessed(c.state, a.assessment, c.prop)

\* the body of restart's loop, prop being what single_iteration returned
iteration(p, st, prop) ==
    LET a == assess(p, st, prop)
    IN  assessed(a.state, a.assessment, a.prop)

MaxPoint == 2        \* the points x0 and the proposed points are 0..MaxPoint
MaxMaxiter == 1      \* maxiter of the Optimizer
MaxConviter == 3     \* conviter of the Optimizer

Points == {<<k, 1>> : k \in 0..MaxPoint}

Proposals == {NoProposal} \cup {Proposal(x, <<One>>, FALSE) : x \in Points}

OptimizerConfigs ==
    {[maxiter |-> n, conviter |-> c] : n \in 0..MaxMaxiter, c \in 1..MaxConviter}

\* Optimizer.minimize up to the call of restart: the State, the initial
\* proposal completed, the first move
OptimizerMinimize(x0, config) ==
    /\ opt.pc = "idle"
    /\ \E c \in {complete(Problem(One), Proposal(x0, <<>>, TRUE), NewState)} :
          opt' = [pc |-> "restart", kind |-> "Optimizer", problem |-> Problem(One),
                  config |-> config, state |-> move(c.state, c.prop),
                  proposal |-> NoProposal, moves |-> 0]
    /\ UnchangedEngine

\* one pass of the loop of restart
RestartIterate(prop) ==
    /\ opt.pc = "restart"
    /\ ~terminated(opt.config, opt.state)
    /\ \E s \in {iteration(opt.problem, opt.state, prop)} :
          opt' = [opt EXCEPT !.state = s, !.proposal = prop,
                             !.moves = IF s.nit # opt.state.nit THEN @ + 1 ELSE @]
    /\ UnchangedEngine

\* the loop of restart ends: return state
RestartReturn ==
    /\ opt.pc = "restart"
    /\ terminated(opt.config, opt.state)
    /\ opt' = [opt EXCEPT !.pc = "restarted"]
    /\ UnchangedEngine

NextRestart ==
    \/ \E x0 \in Points, config \in OptimizerConfigs : OptimizerMinimize(x0, config)
    \/ \E prop \in Proposals : RestartIterate(prop)
    \/ RestartReturn

SpecRestart == Init /\ [][NextRestart]_vars

\* the step is a pass of the loop of restart
Iterates == opt.pc = "restart" /\ opt'.pc = "restart" /\ opt' # opt

Failed(st) == st.assessment.kls = "FailedIteration"

\* C37: the assessment of a proposal is made before the state is moved; when
\* an iteration is assessed FailedIteration the state is not moved (x, y and
\* nit keep their values), conviter and converged are left unchanged, and the
\* loop terminates without running another iteration.
C37_FailedIteration ==
    [][/\ Iterates =>
             /\ opt'.state.assessment
                   = assess(opt.problem, opt.state, opt'.proposal).assessment
             /\ ~Failed(opt'.state) =>
                   /\ opt'.state.dy = <<FSub(opt'.state.y[1], opt.state.y[1])>>
                   /\ opt'.state.x = <<opt'.proposal.x>>
                   /\ opt'.state.nit = opt.state.nit + 1
             /\ Failed(opt'.state) =>
                   /\ opt'.proposal = NoProposal
                   /\ opt'.state.x = opt.state.x
                   /\ opt'.state.y = opt.state.y
                   /\ opt'.state.nit = opt.state.nit
                   /\ opt'.state.conviter = opt.state.conviter
                   /\ opt'.state.converged = opt.state.converged
                   /\ opt'.state = [opt.state EXCEPT !.assessment = opt'.state.assessment]
       /\ (opt.pc = "restart" /\ Failed(opt.state)) =>
             /\ opt'.pc = "restarted"
             /\ opt'.state = opt.state]_vars

\* restart has returned after a failed iteration that followed a converged
\* one: the state still says converged
C37_Witness ==
    /\ opt.pc = "restarted"
    /\ Failed(opt.state)
    /\ opt.state.nit >= 1
    /\ opt.state.converged
    /\ opt.state.conviter >= 1

\* C38: restart never starts a new iteration once state.nit > maxiter,
\* whatever the last assessment and the configured conviter, and moves the
\* state at most maxiter + 1 times.
C38_HonoursMaxiter ==
    opt.pc \in {"restart", "restarted"} =>
       /\ (opt.pc = "restart" /\ opt.state.nit > opt.config.maxiter)
              => terminated(opt.config, opt.state)
       /\ opt.moves <= opt.config.maxiter + 1

(***************************************************************************)
(* C39: the tape of vmad2 and the arguments mutated in place.              *)
(***************************************************************************)
MaxCode == 3
MaxValue == 2

UnchangedButSegment ==
    UNCHANGED <<model, last, failed, target, pc, i, ctx, ctx0, tape, r, vout, single_return, cerr,
                result, calls, stored, otape, dmodel, derr, opdecl, declared,
                first, dprev, opt>>

SegmentNames == {"a", "b"}

\* the nodes a code segment is written from: code.inc(x=...), code.add(...),
\* code.ident(...)
SegmentNodes ==
    {[instr |-> "inc", args |-> ("x" :> n)] : n \in SegmentNames}
    \cup {[instr |-> "ident", args |-> ("x" :> "a") @@ ("y" :> "b")],
          [instr |-> "ident", args |-> ("x" :> "b") @@ ("y" :> "a")],
          [instr |-> "add", args |-> ("x1" :> "a") @@ ("x2" :> "b") @@ ("y" :> "a")],
          [instr |-> "add", args |-> ("x1" :> "a") @@ ("x2" :> "a") @@ ("y" :> "b")]}

RECURSIVE CodeSegments(_)
CodeSegments(n) ==
    IF n = 0 THEN {<<>>}
    ELSE CodeSegments(n - 1)
         \cup {Append(c, node) : c \in {c \in CodeSegments(n - 1) : Len(c) = n - 1},
                                 node \in SegmentNodes}

\* the init dictionaries of a compute: a alone, a and b two objects, a and b
\* one object
SegmentInits ==
    {[heap |-> <<v>>, init |-> ("a" :> 1)] : v \in 1..MaxValue}
    \cup {[heap |-> <<v, w>>, init |-> ("a" :> 1) @@ ("b" :> 2)] : v, w \in 1..MaxValue}
    \cup {[heap |-> <<v>>, init |-> ("a" :> 1) @@ ("b" :> 1)] : v \in 1..MaxValue}

SegmentStep(s) ==
    IF s.i > Len(s.nodes) THEN "return"
    ELSE IF s.return_tape THEN "record" ELSE "invoke"

\* CodeSegment.compute(vout, init, return_tape) up to the loop over the nodes
SegmentCompute(nodes, ini, out, return_tape, engine) ==
    /\ seg.pc = "idle"
    /\ seg' = [pc |-> SegmentStep([i |-> 1, nodes |-> nodes, return_tape |-> return_tape]),
               nodes |-> nodes, engine |-> engine, return_tape |-> return_tape,
               heap |-> ini.heap, init |-> ini.init, frontier |-> ini.init,
               records |-> <<>>, i |-> 1, err |-> "none", r |-> <<>>, vout |-> out]
    /\ UnchangedButSegment

\* if tape: tape.append(node, frontier) and the copies of the IOArguments
SegmentRecord ==
    /\ seg.pc = "record"
    /\ LET node == seg.nodes[seg.i]
       IN  IF ~(ReadNames(node) \subseteq DOMAIN seg.frontier)
           THEN seg' = [seg EXCEPT !.pc = "done", !.err = "KeyError"]
           ELSE \E s \in {CopyArguments([seg EXCEPT !.records = TapeAppend(seg, node)],
                                        {node.args[a] : a \in IOArguments(node)})} :
                    seg' = [s EXCEPT !.pc = IF s.err = "none" THEN "invoke" ELSE "done"]
    /\ UnchangedButSegment

\* r = node.invoke(frontier); frontier.update(r).  handed is not in the
\* source: it keeps, in the record of the node, the objects bound to its
\* IOArguments
SegmentInvoke ==
    /\ seg.pc = "invoke"
    /\ LET node == seg.nodes[seg.i]
       IN  IF ~(ReadNames(node) \subseteq DOMAIN seg.frontier)
           THEN seg' = [seg EXCEPT !.pc = "done", !.err = "KeyError"]
           ELSE \E res \in {invoke(seg, node)} :
                \E s \in {[seg EXCEPT
                             !.heap = res.heap,
                             !.frontier = [n \in DOMAIN seg.frontier \cup DOMAIN res.out |->
                                             IF n \in DOMAIN res.out THEN res.out[n]
                                             ELSE seg.frontier[n]],
                             !.records =
                                 IF seg.return_tape
                                 THEN [@ EXCEPT ![Len(@)].handed =
                                          [n \in {node.args[a] : a \in IOArguments(node)} |->
                                              seg.frontier[n]]]
                                 ELSE @,
                             !.i = @ + 1]} :
                    seg' = [s EXCEPT !.pc = SegmentStep(s)]
    /\ UnchangedButSegment

\* r = [frontier[vn] for vn in vout]
SegmentReturn ==
    /\ seg.pc = "return"
    /\ IF seg.vout \in DOMAIN seg.frontier
       THEN seg' = [seg EXCEPT !.pc = "done", !.r = <<seg.frontier[seg.vout]>>]
       ELSE seg' = [seg EXCEPT !.pc = "done", !.err = "KeyError"]
    /\ UnchangedButSegment

NextSegment ==
    \/ /\ seg.pc = "idle"
       /\ \E nodes \in CodeSegments(MaxCode) \ {<<>>}, ini \in SegmentInits,
             out \in SegmentNames, return_tape \in BOOLEAN, engine \in {"none", "Copy"} :
              SegmentCompute(nodes, ini, out, return_tape, engine)
    \/ SegmentRecord
    \/ SegmentInvoke
    \/ SegmentReturn

SpecSegment == Init /\ [][NextSegment]_vars

\* the content of every recorded object is the content it was recorded with
RecordsUnaltered ==
    \A k \in DOMAIN seg.records :
        \A n \in DOMAIN seg.records[k].d :
            seg.heap[seg.records[k].d[n]] = seg.records[k].seen[n]

\* C39: when compute records a tape, the object a record holds for an
\* argument that is both a declared input and a declared output of a node is
\* not the object handed to that node, and the content of no recorded object
\* changes while that node and the later nodes run
C39_TapeUnaltered ==
    /\ RecordsUnaltered
    /\ \A k \in DOMAIN seg.records :
           \A n \in DOMAIN seg.records[k].handed :
               seg.records[k].handed[n] # seg.records[k].d[n]

\* a taped compute returned after two nodes mutated their argument in place,
\* the second one on an object recorded earlier
C39_Witness ==
    /\ seg.pc = "done" /\ seg.err = "none" /\ seg.return_tape
    /\ \E k, j \in DOMAIN seg.records :
           /\ k < j
           /\ seg.nodes[seg.records[k].node].instr = "inc"
           /\ seg.nodes[seg.records[j].node].instr = "inc"
           /\ \E n \in DOMAIN seg.records[j].handed :
                  /\ n \in DOMAIN seg.records[k].d
                  /\ seg.heap[seg.records[j].handed[n]] # seg.records[j].seen[n]

====
